---- MODULE Spec2Model ----
(***************************************************************************)
(* A model of the Flask backend of template-fptb: the users, categories    *)
(* and items tables, the token service (auth.py), the request decorators   *)
(* (auth.py) and the route handlers (api.py).                              *)
(*                                                                         *)
(* Strings are sequences of one-character strings, so that the length and  *)
(* character checks of the request schemas are computed, not assumed.      *)
(* Optional values are <<>> (None) or <<v>> (a value).                     *)
(***************************************************************************)
EXTENDS Integers, Sequences, FiniteSets, TLC

VARIABLES
    users,       \* the users table: id -> row
    categories,  \* the categories table: id -> row
    items,       \* the items table: id -> row
    todos,       \* the todos table: id -> row
    now,         \* the wall clock (datetime.utcnow), in hours
    pc,          \* "idle", or "done" between a handler's return and the response leaving
    req,         \* the request handled last (meaningful while pc = "done")
    resp,        \* its response
    flight       \* the requests handled concurrently: client -> its position and locals

vars == <<users, categories, items, todos, now, pc, req, resp, flight>>

-----------------------------------------------------------------------------
(* Bounds of the model *)

MaxUsers == 2
MaxCategories == 2
MaxItems == 2
MaxTicks == 2

-----------------------------------------------------------------------------
(* Values *)

None == <<>>
Some(v) == <<v>>

\* JSON values: null, a string, an integer
JNull == [t |-> "null", s |-> <<>>, n |-> 0]
JStr(s) == [t |-> "str", s |-> s, n |-> 0]
JInt(n) == [t |-> "int", s |-> <<>>, n |-> n]

EmptyDict == <<>>

\* dict.get(k) of a parsed JSON object
Field(d, k) == IF k \in DOMAIN d THEN Some(d[k]) ELSE None


\* the primary key an INSERT receives: one past the largest key in the table
NewId(table) ==
    IF DOMAIN table = {} THEN 1
    ELSE (CHOOSE x \in DOMAIN table : \A y \in DOMAIN table : y <= x) + 1

Insert(table, row) ==
    LET n == NewId(table)
    IN  [i \in DOMAIN table \cup {n} |-> IF i = n THEN row ELSE table[i]]

\* a delete that is never flushed
DeleteNothing(table, id) == table
Delete(table, id) == [i \in DOMAIN table \ {id} |-> table[i]]

-----------------------------------------------------------------------------
(* auth.py: the token service *)

SECRET_KEY == "dev-secret-key"
TOKEN_EXPIRATION_HOURS == 24

\* jwt.encode with HS256: the payload and a signature over it under the key
Sign(payload, key) == <<key, payload.user_id, payload.exp, payload.iat>>

JwtEncode(payload, key) == [wf |-> TRUE, payload |-> payload, sig |-> Sign(payload, key)]

\* generate_token called when the clock reads t
IssuedAt(user_id, t) ==
    JwtEncode([user_id |-> user_id,
               exp |-> t + TOKEN_EXPIRATION_HOURS,
               iat |-> t], SECRET_KEY)

\* a token for the first user, whoever asked
generate_token_for_first(user_id) == IssuedAt(1, now)
\* a token that expires half a lifetime early
generate_token_short_lived(user_id) ==
    JwtEncode([user_id |-> user_id,
               exp |-> now + TOKEN_EXPIRATION_HOURS \div 2,
               iat |-> now], SECRET_KEY)
generate_token(user_id) == IssuedAt(user_id, now)

\* jwt.decode: DecodeError for a token that does not parse, InvalidSignatureError
\* for a signature under another key, ExpiredSignatureError once exp <= now
JwtDecode(token, key) ==
    IF ~token.wf THEN "InvalidTokenError"
    ELSE IF token.sig # Sign(token.payload, key) THEN "InvalidTokenError"
    ELSE IF token.payload.exp <= now THEN "ExpiredSignatureError"
    ELSE "ok"

\* decoding that lets an expired token through
decode_token_ignoring_expiry(token) ==
    LET outcome == JwtDecode(token, SECRET_KEY)
    IN  IF outcome = "InvalidTokenError" THEN None
        ELSE Some(token.payload)

decode_token(token) ==
    LET outcome == JwtDecode(token, SECRET_KEY)
    IN  IF outcome = "ExpiredSignatureError" THEN None
        ELSE IF outcome = "InvalidTokenError" THEN None
        ELSE Some(token.payload)

get_current_user_any_scheme(header) ==
    IF Len(header) < 2 THEN None
    ELSE LET payload == decode_token(header[2])
         IN  IF payload = None THEN None
             ELSE IF payload[1].user_id \in DOMAIN users
                  THEN Some(payload[1].user_id)
                  ELSE None

\* The Authorization header is the sequence of its words (split on " "); an
\* absent header is <<>>.
get_current_user(header) ==
    IF Len(header) < 2 \/ header[1] # "Bearer" THEN None
    ELSE LET payload == decode_token(header[2])
         IN  IF payload = None THEN None
             ELSE IF payload[1].user_id \in DOMAIN users
                  THEN Some(payload[1].user_id)
                  ELSE None

-----------------------------------------------------------------------------
(* Responses and outcomes *)

NoBody == [kind |-> "none"]

\* ran: whether the view function wrapped by the decorators was entered
R(status, error, body, ran) ==
    [status |-> status, error |-> error, body |-> body, ran |-> ran]

\* an outcome that leaves the store as it is (no commit)
Keep(r) == [resp |-> r, users |-> users, categories |-> categories, items |-> items]

Unauthenticated == R(401, "Authentication required", NoBody, FALSE)

-----------------------------------------------------------------------------
(* Strings used as inputs *)

Chars(n, c) == [i \in 1..n |-> c]

EmailA == <<"a", "@", "x", ".", "c", "o", "m">>
EmailB == <<"b", "@", "x", ".", "c", "o", "m">>
NotAnEmail == <<"n", "o", "t", "a", "n", "e", "m", "a", "i", "l">>
NameAbc == <<"a", "b", "c">>
NameBob == <<"b", "o", "b">>
Password1 == <<"p", "a", "s", "s", "w", "o", "r", "d", "1">>
WrongPass == <<"w", "r", "o", "n", "g", "p", "a", "s", "s">>

Alnum ==
    {"a", "b", "c", "d", "e", "f", "g", "h", "i", "j", "k", "l", "m",
     "n", "o", "p", "q", "r", "s", "t", "u", "v", "w", "x", "y", "z",
     "0", "1", "2", "3", "4", "5", "6", "7", "8", "9"}

\* str.isalnum
IsAlnum(s) == Len(s) > 0 /\ \A i \in 1..Len(s) : s[i] \in Alnum

\* str.replace(c, "")
Without(s, c) == SelectSeq(s, LAMBDA ch : ch # c)

-----------------------------------------------------------------------------
(* schemas.py: the request schemas.  Each returns None on a ValidationError  *)
(* and the validated fields otherwise.                                       *)

\* a required str field: present, and a string
StrField(d, k) ==
    LET f == Field(d, k)
    IN  IF f = None THEN None
        ELSE IF f[1].t # "str" THEN None
        ELSE Some(f[1].s)

\* Field(min_length=lo) and Field(max_length=hi) on a validated field
MinLength(f, lo) == f # None /\ Len(f[1]) >= lo
MaxLength(f, hi) == f # None /\ Len(f[1]) <= hi

\* pydantic's EmailStr: one "@", a non-empty local part, a dotted domain
EmailStr(s) ==
    /\ Cardinality({i \in 1..Len(s) : s[i] = "@"}) = 1
    /\ LET at == CHOOSE i \in 1..Len(s) : s[i] = "@"
       IN  /\ at > 1
           /\ \E j \in (at + 2)..(Len(s) - 1) : s[j] = "."
           /\ s[Len(s)] # "."
           /\ s[at + 1] # "."

EmailField(d, k) ==
    LET f == Field(d, k)
    IN  IF f = None THEN None
        ELSE IF f[1].t # "str" THEN None
        ELSE IF ~EmailStr(f[1].s) THEN None
        ELSE Some(f[1].s)

username_alphanumeric(v) == IsAlnum(Without(Without(v, "_"), "-"))

RegisterRequest(d) ==
    LET email == EmailField(d, "email")
        username == StrField(d, "username")
        password == StrField(d, "password")
    IN  IF email = None \/ username = None \/ password = None THEN None
        ELSE IF ~MinLength(username, 3) \/ ~MaxLength(username, 120) THEN None
        ELSE IF ~MinLength(password, 8) THEN None
        ELSE IF ~username_alphanumeric(username[1]) THEN None
        ELSE Some([email |-> email[1], username |-> username[1],
                   password |-> password[1]])

LoginRequest(d) ==
    LET email == EmailField(d, "email")
        password == StrField(d, "password")
    IN  IF email = None \/ password = None THEN None
        ELSE Some([email |-> email[1], password |-> password[1]])

-----------------------------------------------------------------------------
(* models.py: User *)

\* werkzeug's generate_password_hash: a salted one-way digest of the password
Salt == "salt"
Digest(salt, password) == <<"scrypt", salt>> \o password
generate_password_hash(password) == [salt |-> Salt, digest |-> Digest(Salt, password)]
check_password_hash(pwhash, password) == pwhash.digest = Digest(pwhash.salt, password)

\* a comparison that accepts every password
check_password_any(user, password) == TRUE
check_password(user, password) == check_password_hash(user.password_hash, password)

\* datetime.isoformat
IsoFormat(t) == <<"T", t>>

\* User.to_dict of the row stored (or being stored) under id
UserToDict(id, row, include_email) ==
    LET data == [id |-> id, username |-> row.username,
                 created_at |-> IsoFormat(row.created_at)]
    IN  IF include_email THEN data @@ [email |-> row.email] ELSE data

\* User.query.filter_by(email=...).first() / filter_by(username=...).first()
UserByEmail(email) == {i \in DOMAIN users : users[i].email = email}
UserByUsername(username) == {i \in DOMAIN users : users[i].username = username}

\* columns declared without unique=True
UniqueViolationUnenforced(row) == FALSE
\* db.session.add(user); db.session.commit(): the unique constraints on email
\* and username are enforced by the database at the insert
UniqueViolation(row) ==
    \E i \in DOMAIN users : users[i].email = row.email \/ users[i].username = row.username

CommitUser(row) ==
    IF UniqueViolation(row) THEN [ok |-> FALSE, table |-> users]
    ELSE [ok |-> TRUE, table |-> Insert(users, row)]

-----------------------------------------------------------------------------
(* models.py: Todo.  A float is an IEEE 754 double, held as the integer      *)
(* number of units of 2^-54 it is worth, in three limbs of 24 bits, most     *)
(* significant first (every double from 0.25 to 64 is a whole number of      *)
(* units).                                                                   *)

Limb == 2^24

\* the limbs after the carries
Carry(x) ==
    LET mid == x[2] + x[3] \div Limb
    IN  <<x[1] + mid \div Limb, mid % Limb, x[3] % Limb>>

\* the exact product of an int and a float, and the exact sum of two floats
Scale(k, x) == Carry(<<k * x[1], k * x[2], k * x[3]>>)
Sum(x, y) == Carry(<<x[1] + y[1], x[2] + y[2], x[3] + y[3]>>)

\* the double nearest to the exact value x, ties to the even mantissa: a value
\* in [2^(52+j), 2^(53+j)) units has 53 bits above a last place worth 2^j units
Round(x) ==
    LET ulp == CHOOSE u \in {2^j : j \in 0..7} : 16 * u <= x[1] /\ x[1] < 32 * u
        rest == x[3] % ulp
        down == <<x[1], x[2], x[3] - rest>>
        up == Carry(<<x[1], x[2], x[3] - rest + ulp>>)
    IN  IF 2 * rest < ulp THEN down
        ELSE IF 2 * rest > ulp THEN up
        ELSE IF ((x[3] - rest) \div ulp) % 2 = 0 THEN down ELSE up

\* the literals 0.6 and 0.4: the doubles 0x1.3333333333333p-1 and
\* 0x1.999999999999ap-2
Point6 == <<38, 6710886, 6710886>>
Point4 == <<25, 10066329, 10066330>>

\* a score that weighs urgency 60% and importance 40%
priority_score_swapped(importance, urgency) ==
    Round(Sum(Round(Scale(importance, Point4)), Round(Scale(urgency, Point6))))

\* (self.importance * 0.6) + (self.urgency * 0.4)
priority_score(importance, urgency) ==
    Round(Sum(Round(Scale(importance, Point6)), Round(Scale(urgency, Point4))))

\* levels.get(level, "Low")
get_level_name_low(level) ==
    CASE level = 1 -> "Low"
      [] level = 2 -> "Medium"
      [] level = 3 -> "High"
      [] level = 4 -> "Critical"
      [] OTHER -> "Low"

\* levels.get(level, "Medium")
get_level_name(level) ==
    CASE level = 1 -> "Low"
      [] level = 2 -> "Medium"
      [] level = 3 -> "High"
      [] level = 4 -> "Critical"
      [] OTHER -> "Medium"

\* icons.get(level, <the triangle again>)
get_level_icon(level) ==
    CASE level = 1 ->
           "<svg width=\"16\" height=\"16\" viewBox=\"0 0 16 16\" xmlns=\"http://www.w3.org/2000/svg\"><circle cx=\"8\" cy=\"8\" r=\"7\" fill=\"#FFC107\"/></svg>"
      [] level = 2 ->
           "<svg width=\"16\" height=\"16\" viewBox=\"0 0 16 16\" xmlns=\"http://www.w3.org/2000/svg\"><path d=\"M8 2 L14 14 L2 14 Z\" fill=\"#FF7811\"/></svg>"
      [] level = 3 ->
           "<svg width=\"16\" height=\"16\" viewBox=\"0 0 16 16\" xmlns=\"http://www.w3.org/2000/svg\"><rect x=\"2\" y=\"2\" width=\"12\" height=\"12\" fill=\"#F44336\"/></svg>"
      [] level = 4 ->
           "<svg width=\"16\" height=\"16\" viewBox=\"0 0 16 16\" xmlns=\"http://www.w3.org/2000/svg\"><path d=\"M8 1 L10 6 L15 7 L11 11 L12 16 L8 13 L4 16 L5 11 L1 7 L6 6 Z\" fill=\"#2196F3\"/></svg>"
      [] OTHER ->
           "<svg width=\"16\" height=\"16\" viewBox=\"0 0 16 16\" xmlns=\"http://www.w3.org/2000/svg\"><path d=\"M8 2 L14 14 L2 14 Z\" fill=\"#FF7811\"/></svg>"

\* __table_args__: importance BETWEEN 1 AND 4, urgency BETWEEN 1 AND 4
CheckConstraints(row) == row.importance \in 1..4 /\ row.urgency \in 1..4

\* Todo.to_dict with the owner's email
TodoToDictWithEmail(id, row) ==
    [id |-> id,
     title |-> row.title,
     description |-> row.description,
     owner |-> IF row.owner_id \in DOMAIN users
               THEN Some(UserToDict(row.owner_id, users[row.owner_id], TRUE))
               ELSE None,
     status |-> row.status,
     importance |-> row.importance,
     urgency |-> row.urgency,
     importance_label |-> get_level_name(row.importance),
     urgency_label |-> get_level_name(row.urgency),
     importance_icon |-> get_level_icon(row.importance),
     urgency_icon |-> get_level_icon(row.urgency),
     priority_score |-> priority_score(row.importance, row.urgency),
     created_at |-> IsoFormat(row.created_at),
     updated_at |-> IsoFormat(row.updated_at)]

\* Todo.to_dict: the owner is serialised by User.to_dict() with its default
\* include_email=False
TodoToDict(id, row) ==
    [id |-> id,
     title |-> row.title,
     description |-> row.description,
     owner |-> IF row.owner_id \in DOMAIN users
               THEN Some(UserToDict(row.owner_id, users[row.owner_id], FALSE))
               ELSE None,
     status |-> row.status,
     importance |-> row.importance,
     urgency |-> row.urgency,
     importance_label |-> get_level_name(row.importance),
     urgency_label |-> get_level_name(row.urgency),
     importance_icon |-> get_level_icon(row.importance),
     urgency_icon |-> get_level_icon(row.urgency),
     priority_score |-> priority_score(row.importance, row.urgency),
     created_at |-> IsoFormat(row.created_at),
     updated_at |-> IsoFormat(row.updated_at)]

-----------------------------------------------------------------------------
(* auth.py: the decorators.  A handler yields the set of its possible      *)
(* outcomes: one, unless the database leaves the order of a result open.   *)

\* login_required: f is the wrapped function, as a function of its current_user
\* argument
login_required(f, r) ==
    LET user == get_current_user(r.auth)
    IN  IF user = None THEN {Keep(Unauthenticated)} ELSE f[user[1]]

Missing(required, d) == SelectSeq(required, LAMBDA k : k \notin DOMAIN d)

\* validate_request_json(required_fields): None when the request passes
JsonProblem(required, r) ==
    IF ~r.is_json
    THEN Some(R(400, "Content-Type must be application/json", NoBody, FALSE))
    ELSE IF ~r.parse_ok
    THEN Some(R(400, "Bad Request", NoBody, FALSE))
    ELSE IF DOMAIN r.json = {}
    THEN Some(R(400, "Request body is required", NoBody, FALSE))
    ELSE IF Missing(required, r.json) # <<>>
    THEN Some(R(400, "Missing required fields",
                [kind |-> "missing", fields |-> Missing(required, r.json)], FALSE))
    ELSE None

\* an exception no handler catches: Flask answers 500 and the session is dropped
InternalServerError == R(500, "Internal Server Error", NoBody, TRUE)
\* {"error": e.errors()}, 400
ValidationFailed == R(400, "ValidationError", NoBody, TRUE)

-----------------------------------------------------------------------------
(* api.py: authentication endpoints *)

NewUser(data) ==
    [email |-> data.email, username |-> data.username,
     password_hash |-> generate_password_hash(data.password),
     created_at |-> now]

\* lines 49-63: insert, commit, token, response
register_commit(data) ==
    LET done == CommitUser(NewUser(data))
        id == NewId(users)
    IN  IF ~done.ok THEN Keep(InternalServerError)
        ELSE [resp |-> R(201, "",
                         [kind |-> "auth",
                          message |-> "User registered successfully",
                          token |-> generate_token(id),
                          user |-> UserToDict(id, done.table[id], TRUE)], TRUE),
              users |-> done.table,
              categories |-> categories,
              items |-> items]

\* the view with the username looked up before the email
register_view_username_first(r) ==
    LET data == RegisterRequest(r.json)
    IN  IF data = None THEN {Keep(ValidationFailed)}
        ELSE IF UserByUsername(data[1].username) # {}
        THEN {Keep(R(400, "Username already taken", NoBody, TRUE))}
        ELSE IF UserByEmail(data[1].email) # {}
        THEN {Keep(R(400, "Email already registered", NoBody, TRUE))}
        ELSE {register_commit(data[1])}

register_view(r) ==
    LET data == RegisterRequest(r.json)
    IN  IF data = None THEN {Keep(ValidationFailed)}
        ELSE IF UserByEmail(data[1].email) # {}
        THEN {Keep(R(400, "Email already registered", NoBody, TRUE))}
        ELSE IF UserByUsername(data[1].username) # {}
        THEN {Keep(R(400, "Username already taken", NoBody, TRUE))}
        ELSE {register_commit(data[1])}

register(r) ==
    LET problem == JsonProblem(<<"email", "username", "password">>, r)
    IN  IF problem # None THEN {Keep(problem[1])} ELSE register_view(r)

InvalidCredentials == R(401, "Invalid email or password", NoBody, TRUE)

login_view(r) ==
    LET data == LoginRequest(r.json)
    IN  IF data = None THEN {Keep(ValidationFailed)}
        ELSE LET found == UserByEmail(data[1].email)
             IN  IF found = {} THEN {Keep(InvalidCredentials)}
                 ELSE LET id == CHOOSE i \in found : TRUE
                      IN  IF ~check_password(users[id], data[1].password)
                          THEN {Keep(InvalidCredentials)}
                          ELSE {Keep(R(200, "",
                                       [kind |-> "auth",
                                        message |-> "Login successful",
                                        token |-> generate_token(id),
                                        user |-> UserToDict(id, users[id], TRUE)],
                                       TRUE))}

login(r) ==
    LET problem == JsonProblem(<<"email", "password">>, r)
    IN  IF problem # None THEN {Keep(problem[1])} ELSE login_view(r)

get_current_user_info_view(r, current_user) ==
    {Keep(R(200, "",
            [kind |-> "user", user |-> UserToDict(current_user, users[current_user], TRUE)],
            TRUE))}

get_current_user_info(r) ==
    login_required([current_user \in DOMAIN users |-> get_current_user_info_view(r, current_user)], r)

-----------------------------------------------------------------------------
(* schemas.py: category and item schemas *)

\* an Optional[str] field: absent and null both give None
OptStrField(d, k) ==
    LET f == Field(d, k)
    IN  IF f = None \/ f[1].t = "null" THEN [ok |-> TRUE, v |-> None]
        ELSE IF f[1].t # "str" THEN [ok |-> FALSE, v |-> None]
        ELSE [ok |-> TRUE, v |-> Some(f[1].s)]

\* an Optional[int] field
OptIntField(d, k) ==
    LET f == Field(d, k)
    IN  IF f = None \/ f[1].t = "null" THEN [ok |-> TRUE, v |-> None]
        ELSE IF f[1].t # "int" THEN [ok |-> FALSE, v |-> None]
        ELSE [ok |-> TRUE, v |-> Some(f[1].n)]

StatusActive == <<"a", "c", "t", "i", "v", "e">>
StatusInactive == <<"i", "n", "a", "c", "t", "i", "v", "e">>
StatusArchived == <<"a", "r", "c", "h", "i", "v", "e", "d">>
StatusInvalid == <<"i", "n", "v", "a", "l", "i", "d">>

\* a field without the pattern
StatusPatternAbsent(s) == TRUE
\* pattern="^(active|inactive|archived)$"
StatusPattern(s) == s \in {StatusActive, StatusInactive, StatusArchived}

CategoryCreateRequest(d) ==
    LET name == StrField(d, "name")
        description == OptStrField(d, "description")
    IN  IF name = None \/ ~description.ok THEN None
        ELSE IF ~MinLength(name, 1) \/ ~MaxLength(name, 100) THEN None
        ELSE Some([name |-> name[1], description |-> description.v])

ItemCreateRequest(d) ==
    LET title == StrField(d, "title")
        description == OptStrField(d, "description")
        category_id == OptIntField(d, "category_id")
        status == IF "status" \in DOMAIN d THEN StrField(d, "status") ELSE Some(StatusActive)
    IN  IF title = None \/ ~description.ok \/ ~category_id.ok \/ status = None THEN None
        ELSE IF ~MinLength(title, 1) \/ ~MaxLength(title, 200) THEN None
        ELSE IF ~StatusPattern(status[1]) THEN None
        ELSE Some([title |-> title[1], description |-> description.v,
                   category_id |-> category_id.v, status |-> status[1]])

ItemUpdateRequest(d) ==
    LET title == OptStrField(d, "title")
        description == OptStrField(d, "description")
        category_id == OptIntField(d, "category_id")
        status == OptStrField(d, "status")
    IN  IF ~title.ok \/ ~description.ok \/ ~category_id.ok \/ ~status.ok THEN None
        ELSE IF title.v # None /\ (~MinLength(title.v, 1) \/ ~MaxLength(title.v, 200))
        THEN None
        ELSE IF status.v # None /\ ~StatusPattern(status.v[1]) THEN None
        ELSE Some([title |-> title.v, description |-> description.v,
                   category_id |-> category_id.v, status |-> status.v])

-----------------------------------------------------------------------------
(* Category and Item rows, and their serialisation *)

CategoryToDict(id, row) == [id |-> id, name |-> row.name, description |-> row.description]

ItemToDict(id, row) ==
    [id |-> id, title |-> row.title, description |-> row.description,
     category_id |-> row.category_id, status |-> row.status,
     owner_id |-> row.owner_id, created_at |-> IsoFormat(row.created_at)]

\* Category.query.filter_by(name=...).first()
CategoryByName(name) == {i \in DOMAIN categories : categories[i].name = name}

\* the unique constraint on the category name, enforced at the insert
CommitCategory(row) ==
    IF \E i \in DOMAIN categories : categories[i].name = row.name
    THEN [ok |-> FALSE, table |-> categories]
    ELSE [ok |-> TRUE, table |-> Insert(categories, row)]

\* the character order of an ORDER BY on a string column
Alphabet ==
    <<"0", "1", "2", "3", "4", "5", "6", "7", "8", "9",
      "A", "B", "C", "D", "E", "F", "G", "H", "I", "J", "K", "L", "M",
      "N", "O", "P", "Q", "R", "S", "T", "U", "V", "W", "X", "Y", "Z",
      "a", "b", "c", "d", "e", "f", "g", "h", "i", "j", "k", "l", "m",
      "n", "o", "p", "q", "r", "s", "t", "u", "v", "w", "x", "y", "z">>
CharRank(c) == CHOOSE i \in 1..Len(Alphabet) : Alphabet[i] = c

\* a < b in the lexicographic order
StrLess(a, b) ==
    \E k \in 0..Len(a) :
        /\ k <= Len(b)
        /\ \A i \in 1..k : a[i] = b[i]
        /\ \/ (k = Len(a) /\ k < Len(b))
           \/ (k < Len(a) /\ k < Len(b) /\ CharRank(a[k + 1]) < CharRank(b[k + 1]))

\* the results of a query over the rows ids with ORDER BY: every listing of ids
\* in which no row comes after one it must precede
Listings(ids, precedes) ==
    {l \in [1..Cardinality(ids) -> ids] :
        /\ \A i, j \in 1..Cardinality(ids) : i # j => l[i] # l[j]
        /\ \A i, j \in 1..Cardinality(ids) : i < j => ~precedes[l[j], l[i]]}

-----------------------------------------------------------------------------
(* api.py: category endpoints *)

\* the query without order_by: the rows in the order of their keys
get_categories_by_id(r) ==
    LET byId == [a, b \in DOMAIN categories |-> a < b]
    IN  {Keep(R(200, "",
                [kind |-> "categories",
                 categories |-> [i \in DOMAIN l |-> CategoryToDict(l[i], categories[l[i]])]],
                TRUE)) : l \in Listings(DOMAIN categories, byId)}

get_categories(r) ==
    LET byName == [a, b \in DOMAIN categories |->
                      StrLess(categories[a].name, categories[b].name)]
    IN  {Keep(R(200, "",
                [kind |-> "categories",
                 categories |-> [i \in DOMAIN l |-> CategoryToDict(l[i], categories[l[i]])]],
                TRUE)) : l \in Listings(DOMAIN categories, byName)}

\* lines 121-125: insert, commit, response
create_category_commit(data) ==
    LET done == CommitCategory([name |-> data.name, description |-> data.description])
        id == NewId(categories)
    IN  IF ~done.ok THEN Keep(InternalServerError)
        ELSE [resp |-> R(201, "",
                         [kind |-> "category",
                          category |-> CategoryToDict(id, done.table[id])], TRUE),
              users |-> users,
              categories |-> done.table,
              items |-> items]

create_category_view(r, current_user) ==
    LET data == CategoryCreateRequest(r.json)
    IN  IF data = None THEN {Keep(ValidationFailed)}
        ELSE IF CategoryByName(data[1].name) # {}
        THEN {Keep(R(400, "Category already exists", NoBody, TRUE))}
        ELSE {create_category_commit(data[1])}

create_category_validated(r, current_user) ==
    LET problem == JsonProblem(<<"name">>, r)
    IN  IF problem # None THEN {Keep(problem[1])} ELSE create_category_view(r, current_user)

create_category(r) ==
    login_required([current_user \in DOMAIN users |-> create_category_validated(r, current_user)], r)

-----------------------------------------------------------------------------
(* api.py: item endpoints *)

ItemNotFound == R(404, "Item not found", NoBody, TRUE)
ForbiddenAsNotFound == R(404, "Item not found", NoBody, TRUE)
Forbidden == R(403, "Unauthorized", NoBody, TRUE)

NotOwnerUnchecked(id, current_user) == FALSE
\* item.owner_id != current_user.id
NotOwner(id, current_user) == items[id].owner_id # current_user
CategoryNotFound == R(404, "Category not found", NoBody, TRUE)

\* the query without .desc(): oldest first
get_items_view_ascending(r, current_user) ==
    LET own == {i \in DOMAIN items : items[i].owner_id = current_user}
        older == [a, b \in own |-> items[a].created_at < items[b].created_at]
    IN  {Keep(R(200, "",
                [kind |-> "items",
                 items |-> [i \in DOMAIN l |-> ItemToDict(l[i], items[l[i]])]],
                TRUE)) : l \in Listings(own, older)}

get_items_view(r, current_user) ==
    LET own == {i \in DOMAIN items : items[i].owner_id = current_user}
        newer == [a, b \in own |-> items[a].created_at > items[b].created_at]
    IN  {Keep(R(200, "",
                [kind |-> "items",
                 items |-> [i \in DOMAIN l |-> ItemToDict(l[i], items[l[i]])]],
                TRUE)) : l \in Listings(own, newer)}

get_items(r) ==
    login_required([current_user \in DOMAIN users |-> get_items_view(r, current_user)], r)

get_item_view(r, current_user) ==
    IF r.id \notin DOMAIN items THEN {Keep(ItemNotFound)}
    ELSE IF NotOwner(r.id, current_user) THEN {Keep(Forbidden)}
    ELSE {Keep(R(200, "", [kind |-> "item", item |-> ItemToDict(r.id, items[r.id])], TRUE))}

get_item(r) ==
    login_required([current_user \in DOMAIN users |-> get_item_view(r, current_user)], r)

\* a view that takes the owner from the payload when the payload names one
create_item_view_owner_from_payload(r, current_user) ==
    LET data == ItemCreateRequest(r.json)
        owner == OptIntField(r.json, "owner_id")
    IN  IF data = None THEN {Keep(ValidationFailed)}
        ELSE LET row == [title |-> data[1].title,
                         description |-> data[1].description,
                         category_id |-> data[1].category_id,
                         status |-> data[1].status,
                         owner_id |-> IF owner.v # None THEN owner.v[1] ELSE current_user,
                         created_at |-> now]
             IN  {[resp |-> R(201, "", [kind |-> "item",
                                        item |-> ItemToDict(NewId(items), row)], TRUE),
                   users |-> users,
                   categories |-> categories,
                   items |-> Insert(items, row)]}

create_item_view(r, current_user) ==
    LET data == ItemCreateRequest(r.json)
    IN  IF data = None THEN {Keep(ValidationFailed)}
        ELSE IF /\ data[1].category_id # None
                /\ data[1].category_id[1] # 0
                /\ data[1].category_id[1] \notin DOMAIN categories
        THEN {Keep(CategoryNotFound)}
        ELSE LET row == [title |-> data[1].title,
                         description |-> data[1].description,
                         category_id |-> data[1].category_id,
                         status |-> data[1].status,
                         owner_id |-> current_user,
                         created_at |-> now]
                 table == Insert(items, row)
                 id == NewId(items)
             \* a row whose category_id is 0 reaches the commit unchecked: a
             \* database that enforces the reference refuses it, and nothing
             \* catches the IntegrityError
             IN  {[resp |-> R(201, "", [kind |-> "item", item |-> ItemToDict(id, row)], TRUE),
                   users |-> users,
                   categories |-> categories,
                   items |-> table]}
                     \cup (IF data[1].category_id = Some(0)
                           THEN {Keep(InternalServerError)} ELSE {})

create_item_validated(r, current_user) ==
    LET problem == JsonProblem(<<"title">>, r)
    IN  IF problem # None THEN {Keep(problem[1])} ELSE create_item_view(r, current_user)

\* the decorators in the other order: validate_request_json outside
\* login_required
create_item_validating_first(r) ==
    LET problem == JsonProblem(<<"title">>, r)
    IN  IF problem # None THEN {Keep(problem[1])}
        ELSE login_required([current_user \in DOMAIN users |-> create_item_view(r, current_user)], r)

create_item(r) ==
    login_required([current_user \in DOMAIN users |-> create_item_validated(r, current_user)], r)

\* the description assigned whether the payload has one or not
update_item_apply_unguarded(id, data) ==
    IF data.category_id # None /\ data.category_id[1] \notin DOMAIN categories
    THEN Keep(CategoryNotFound)
    ELSE LET old == items[id]
             row == [title |-> IF data.title # None THEN data.title[1] ELSE old.title,
                     description |-> data.description,
                     category_id |-> IF data.category_id # None
                                     THEN data.category_id ELSE old.category_id,
                     status |-> IF data.status # None THEN data.status[1] ELSE old.status,
                     owner_id |-> old.owner_id,
                     created_at |-> old.created_at]
         IN  [resp |-> R(200, "", [kind |-> "item", item |-> ItemToDict(id, row)], TRUE),
              users |-> users,
              categories |-> categories,
              items |-> [items EXCEPT ![id] = row]]

\* the title and the description committed before the return at line 212
update_item_apply_committing_early(id, data) ==
    IF data.category_id # None /\ data.category_id[1] \notin DOMAIN categories
    THEN [resp |-> CategoryNotFound,
          users |-> users,
          categories |-> categories,
          items |-> [items EXCEPT
                        ![id].title = IF data.title # None THEN data.title[1] ELSE @,
                        ![id].description = IF data.description # None
                                            THEN data.description ELSE @]]
    ELSE LET old == items[id]
             row == [title |-> IF data.title # None THEN data.title[1] ELSE old.title,
                     description |-> IF data.description # None
                                     THEN data.description ELSE old.description,
                     category_id |-> IF data.category_id # None
                                     THEN data.category_id ELSE old.category_id,
                     status |-> IF data.status # None THEN data.status[1] ELSE old.status,
                     owner_id |-> old.owner_id,
                     created_at |-> old.created_at]
         IN  [resp |-> R(200, "", [kind |-> "item", item |-> ItemToDict(id, row)], TRUE),
              users |-> users,
              categories |-> categories,
              items |-> [items EXCEPT ![id] = row]]

\* lines 204-219: the fields of the payload that are not None are assigned, then
\* the commit; the return at line 212 leaves without a commit
update_item_apply(id, data) ==
    IF data.category_id # None /\ data.category_id[1] \notin DOMAIN categories
    THEN Keep(CategoryNotFound)
    ELSE LET old == items[id]
             row == [title |-> IF data.title # None THEN data.title[1] ELSE old.title,
                     description |-> IF data.description # None
                                     THEN data.description ELSE old.description,
                     category_id |-> IF data.category_id # None
                                     THEN data.category_id ELSE old.category_id,
                     status |-> IF data.status # None THEN data.status[1] ELSE old.status,
                     owner_id |-> old.owner_id,
                     created_at |-> old.created_at]
         IN  [resp |-> R(200, "", [kind |-> "item", item |-> ItemToDict(id, row)], TRUE),
              users |-> users,
              categories |-> categories,
              items |-> [items EXCEPT ![id] = row]]

\* a view that assigns the status before it validates the payload
update_item_view_assigning_first(r, current_user) ==
    IF r.id \notin DOMAIN items THEN {Keep(ItemNotFound)}
    ELSE IF NotOwner(r.id, current_user) THEN {Keep(Forbidden)}
    ELSE LET data == ItemUpdateRequest(r.json)
         IN  IF data = None
             THEN {[resp |-> ValidationFailed,
                    users |-> users,
                    categories |-> categories,
                    items |-> [items EXCEPT ![r.id].status = StatusInvalid]]}
             ELSE {update_item_apply(r.id, data[1])}

\* a view that validates the payload before it looks the item up
update_item_view_validating_first(r, current_user) ==
    IF ~r.is_json THEN {Keep(R(415, "Unsupported Media Type", NoBody, TRUE))}
    ELSE IF ~r.parse_ok THEN {Keep(R(400, "Bad Request", NoBody, TRUE))}
    ELSE LET data == ItemUpdateRequest(r.json)
         IN  IF data = None THEN {Keep(ValidationFailed)}
             ELSE IF r.id \notin DOMAIN items THEN {Keep(ItemNotFound)}
             ELSE IF NotOwner(r.id, current_user) THEN {Keep(Forbidden)}
             ELSE {update_item_apply(r.id, data[1])}

\* request.get_json() in the view: 415 for another content type, 400 for a body
\* that does not parse
update_item_view(r, current_user) ==
    IF r.id \notin DOMAIN items THEN {Keep(ItemNotFound)}
    ELSE IF NotOwner(r.id, current_user) THEN {Keep(Forbidden)}
    ELSE IF ~r.is_json THEN {Keep(R(415, "Unsupported Media Type", NoBody, TRUE))}
    ELSE IF ~r.parse_ok THEN {Keep(R(400, "Bad Request", NoBody, TRUE))}
    ELSE LET data == ItemUpdateRequest(r.json)
         IN  IF data = None THEN {Keep(ValidationFailed)}
             ELSE {update_item_apply(r.id, data[1])}

update_item(r) ==
    login_required([current_user \in DOMAIN users |-> update_item_view(r, current_user)], r)

\* a view that deletes every item of the caller along with the one asked for
delete_item_view_deleting_owned(r, current_user) ==
    IF r.id \notin DOMAIN items THEN {Keep(ItemNotFound)}
    ELSE IF NotOwner(r.id, current_user) THEN {Keep(Forbidden)}
    ELSE {[resp |-> R(200, "", [kind |-> "message",
                                message |-> "Item deleted successfully"], TRUE),
           users |-> users,
           categories |-> categories,
           items |-> [i \in {j \in DOMAIN items : items[j].owner_id # current_user}
                        |-> items[i]]]}

delete_item_view(r, current_user) ==
    IF r.id \notin DOMAIN items THEN {Keep(ItemNotFound)}
    ELSE IF NotOwner(r.id, current_user) THEN {Keep(Forbidden)}
    ELSE {[resp |-> R(200, "", [kind |-> "message",
                                message |-> "Item deleted successfully"], TRUE),
           users |-> users,
           categories |-> categories,
           items |-> Delete(items, r.id)]}

delete_item(r) ==
    login_required([current_user \in DOMAIN users |-> delete_item_view(r, current_user)], r)

health(r) == {Keep(R(200, "", [kind |-> "health", status |-> "healthy"], TRUE))}

-----------------------------------------------------------------------------
(* The todo endpoints.  Their handlers are not among the sources: they are  *)
(* written from the specification and from tests/test_todo_endpoints.py, on *)
(* the pattern of the item endpoints.  An outcome is the response and the   *)
(* todo table.                                                              *)

StatusPending == <<"p", "e", "n", "d", "i", "n", "g">>
TodoStatuses ==
    {StatusPending,
     <<"i", "n", "_", "p", "r", "o", "g", "r", "e", "s", "s">>,
     <<"c", "o", "m", "p", "l", "e", "t", "e", "d">>}

\* title of 1 to 200 characters, importance and urgency from 1 to 4 with
\* default 2, status with default pending
TodoCreateRequest(d) ==
    LET title == StrField(d, "title")
        description == OptStrField(d, "description")
        importance == OptIntField(d, "importance")
        urgency == OptIntField(d, "urgency")
        status == IF "status" \in DOMAIN d THEN StrField(d, "status") ELSE Some(StatusPending)
    IN  IF title = None \/ ~description.ok \/ ~importance.ok \/ ~urgency.ok \/ status = None
        THEN None
        ELSE IF ~MinLength(title, 1) \/ ~MaxLength(title, 200) THEN None
        ELSE IF importance.v # None /\ importance.v[1] \notin 1..4 THEN None
        ELSE IF urgency.v # None /\ urgency.v[1] \notin 1..4 THEN None
        ELSE IF status[1] \notin TodoStatuses THEN None
        ELSE Some([title |-> title[1], description |-> description.v,
                   importance |-> IF importance.v = None THEN 2 ELSE importance.v[1],
                   urgency |-> IF urgency.v = None THEN 2 ELSE urgency.v[1],
                   status |-> status[1]])

KeepTodos(r) == [resp |-> r, todos |-> todos]

\* x < y on floats
FloatLess(x, y) ==
    \/ x[1] < y[1]
    \/ x[1] = y[1] /\ x[2] < y[2]
    \/ x[1] = y[1] /\ x[2] = y[2] /\ x[3] < y[3]

\* a listing by creation time alone
get_todos_view_by_age(r, current_user) ==
    LET own == {i \in DOMAIN todos : todos[i].owner_id = current_user}
        first == [a, b \in own |-> todos[a].created_at < todos[b].created_at]
    IN  {KeepTodos(R(200, "",
                     [kind |-> "todos",
                      todos |-> [i \in DOMAIN l |-> TodoToDict(l[i], todos[l[i]])]],
                     TRUE)) : l \in Listings(own, first)}

\* GET /api/todos: the caller's todos, highest priority score first and, among
\* equal scores, oldest first
get_todos_view(r, current_user) ==
    LET own == {i \in DOMAIN todos : todos[i].owner_id = current_user}
        score == [i \in own |-> priority_score(todos[i].importance, todos[i].urgency)]
        first == [a, b \in own |->
                     \/ FloatLess(score[b], score[a])
                     \/ score[a] = score[b] /\ todos[a].created_at < todos[b].created_at]
    IN  {KeepTodos(R(200, "",
                     [kind |-> "todos",
                      todos |-> [i \in DOMAIN l |-> TodoToDict(l[i], todos[l[i]])]],
                     TRUE)) : l \in Listings(own, first)}

get_todos(r) ==
    LET user == get_current_user(r.auth)
    IN  IF user = None THEN {KeepTodos(Unauthenticated)} ELSE get_todos_view(r, user[1])

\* POST /api/todos
create_todo_view(r, current_user) ==
    LET problem == JsonProblem(<<"title">>, r)
        data == TodoCreateRequest(r.json)
    IN  IF problem # None THEN {KeepTodos(problem[1])}
        ELSE IF data = None THEN {KeepTodos(ValidationFailed)}
        ELSE LET row == [title |-> data[1].title,
                         description |-> data[1].description,
                         importance |-> data[1].importance,
                         urgency |-> data[1].urgency,
                         status |-> data[1].status,
                         owner_id |-> current_user,
                         created_at |-> now,
                         updated_at |-> now]
             IN  IF ~CheckConstraints(row) THEN {KeepTodos(InternalServerError)}
                 ELSE {[resp |-> R(201, "", [kind |-> "todo",
                                             todo |-> TodoToDict(NewId(todos), row)], TRUE),
                        todos |-> Insert(todos, row)]}

\* the update schema without the range of the levels
TodoUpdateRequestUnbounded(d) ==
    LET title == OptStrField(d, "title")
        description == OptStrField(d, "description")
        importance == OptIntField(d, "importance")
        urgency == OptIntField(d, "urgency")
        status == OptStrField(d, "status")
    IN  IF ~title.ok \/ ~description.ok \/ ~importance.ok \/ ~urgency.ok \/ ~status.ok
        THEN None
        ELSE Some([title |-> title.v, description |-> description.v,
                   importance |-> importance.v, urgency |-> urgency.v, status |-> status.v])

\* every field optional, with the bounds of the create schema
TodoUpdateRequest(d) ==
    LET title == OptStrField(d, "title")
        description == OptStrField(d, "description")
        importance == OptIntField(d, "importance")
        urgency == OptIntField(d, "urgency")
        status == OptStrField(d, "status")
    IN  IF ~title.ok \/ ~description.ok \/ ~importance.ok \/ ~urgency.ok \/ ~status.ok
        THEN None
        ELSE IF title.v # None /\ (~MinLength(title.v, 1) \/ ~MaxLength(title.v, 200))
        THEN None
        ELSE IF importance.v # None /\ importance.v[1] \notin 1..4 THEN None
        ELSE IF urgency.v # None /\ urgency.v[1] \notin 1..4 THEN None
        ELSE IF status.v # None /\ status.v[1] \notin TodoStatuses THEN None
        ELSE Some([title |-> title.v, description |-> description.v,
                   importance |-> importance.v, urgency |-> urgency.v, status |-> status.v])

\* PATCH /api/todos/<id>
update_todo_view(r, current_user) ==
    IF r.id \notin DOMAIN todos
    THEN {KeepTodos(R(404, "Todo not found", NoBody, TRUE))}
    ELSE IF todos[r.id].owner_id # current_user THEN {KeepTodos(Forbidden)}
    ELSE LET data == TodoUpdateRequest(r.json)
         IN  IF data = None THEN {KeepTodos(ValidationFailed)}
             ELSE LET old == todos[r.id]
                      new == data[1]
                      row == [title |-> IF new.title # None THEN new.title[1] ELSE old.title,
                              description |-> IF new.description # None
                                              THEN new.description ELSE old.description,
                              importance |-> IF new.importance # None
                                             THEN new.importance[1] ELSE old.importance,
                              urgency |-> IF new.urgency # None
                                          THEN new.urgency[1] ELSE old.urgency,
                              status |-> IF new.status # None THEN new.status[1] ELSE old.status,
                              owner_id |-> old.owner_id,
                              created_at |-> old.created_at,
                              updated_at |-> now]
                  IN  IF ~CheckConstraints(row) THEN {KeepTodos(InternalServerError)}
                      ELSE {[resp |-> R(200, "", [kind |-> "todo",
                                                  todo |-> TodoToDict(r.id, row)], TRUE),
                             todos |-> [todos EXCEPT ![r.id] = row]]}

update_todo(r) ==
    LET user == get_current_user(r.auth)
    IN  IF user = None THEN {KeepTodos(Unauthenticated)} ELSE update_todo_view(r, user[1])

create_todo(r) ==
    LET user == get_current_user(r.auth)
    IN  IF user = None THEN {KeepTodos(Unauthenticated)} ELSE create_todo_view(r, user[1])

\* the routes of api.py
Handle(r) ==
    CASE r.op = "register" -> register(r)
      [] r.op = "login" -> login(r)
      [] r.op = "me" -> get_current_user_info(r)
      [] r.op = "get_categories" -> get_categories(r)
      [] r.op = "create_category" -> create_category(r)
      [] r.op = "get_items" -> get_items(r)
      [] r.op = "get_item" -> get_item(r)
      [] r.op = "create_item" -> create_item(r)
      [] r.op = "update_item" -> update_item(r)
      [] r.op = "delete_item" -> delete_item(r)
      [] r.op = "health" -> health(r)

-----------------------------------------------------------------------------
(* Requests *)

Req(op, auth, json, id) ==
    [op |-> op, auth |-> auth, is_json |-> TRUE, parse_ok |-> TRUE, json |-> json, id |-> id]

\* a body sent without the JSON content type, and a body that does not parse
\* as JSON, which an absent body does not
NotJson(r) == [r EXCEPT !.is_json = FALSE]
Unparsable(r) == [r EXCEPT !.parse_ok = FALSE]

NoReq == Req("none", <<>>, EmptyDict, 0)
NoResp == R(0, "", NoBody, FALSE)

\* the clock advances in steps of half a token lifetime
TickHours == TOKEN_EXPIRATION_HOURS \div 2
Times == {k * TickHours : k \in 0..MaxTicks}

\* the tokens a client can hold: a user can log in at any time since registering
IssueTimes(u) == {t \in Times : users[u].created_at <= t /\ t <= now}
IssuedTokens == UNION {{IssuedAt(u, t) : t \in IssueTimes(u)} : u \in DOMAIN users}

MalformedToken == [wf |-> FALSE, payload |-> [user_id |-> 0, exp |-> 0, iat |-> 0], sig |-> <<>>]
\* a well-formed token for user 1 signed under a key that is not the server's
ForgedToken ==
    JwtEncode([user_id |-> 1, exp |-> now + TOKEN_EXPIRATION_HOURS, iat |-> now], "not-the-key")

NoHeader == <<>>
Bearer(token) == <<"Bearer", token>>
\* another scheme, or "Bearer" with no token after it
WrongScheme(token) == <<"Token", token>>
BearerOnly == <<"Bearer">>

BadHeaders ==
    {NoHeader, BearerOnly, Bearer(MalformedToken), Bearer(ForgedToken)}
        \cup {WrongScheme(t) : t \in IssuedTokens}
Headers == BadHeaders \cup {Bearer(t) : t \in IssuedTokens}

RegisterBody(e, n, p) == [email |-> JStr(e), username |-> JStr(n), password |-> JStr(p)]

\* the two accounts every run may register
Accounts == {<<EmailA, NameAbc>>, <<EmailB, NameBob>>}
\* every pairing of the two emails with the two usernames
Pairings == {EmailA, EmailB} \X {NameAbc, NameBob}

RejectedRegistrations ==
    {RegisterBody(NotAnEmail, NameAbc, Password1),
     RegisterBody(EmailA, <<"a", "b">>, Password1),
     RegisterBody(EmailA, <<"a", "b", "!">>, Password1),
     RegisterBody(EmailA, NameAbc, <<"s", "h", "o", "r", "t">>),
     [email |-> JStr(EmailA), username |-> JInt(7), password |-> JStr(Password1)],
     [email |-> JStr(EmailA), password |-> JStr(Password1)],
     EmptyDict}

RegisterRequests(pairs, others) ==
    LET good == {RegisterBody(p[1], p[2], Password1) : p \in pairs}
        one == Req("register", NoHeader, RegisterBody(EmailA, NameAbc, Password1), 0)
    IN  {Req("register", NoHeader, b, 0) : b \in good \cup others}
            \cup (IF others = {} THEN {} ELSE {NotJson(one), Unparsable(one)})

LoginBody(e, p) == [email |-> JStr(e), password |-> JStr(p)]

RejectedLogins == {LoginBody(NotAnEmail, Password1), [email |-> JStr(EmailA)]}

LoginRequests(passwords, others) ==
    {Req("login", NoHeader, b, 0) :
        b \in {LoginBody(e, p) : e \in {EmailA, EmailB}, p \in passwords} \cup others}

MeRequests == {Req("me", h, EmptyDict, 0) : h \in Headers}

\* a client that has just logged in as u
Fresh == {Bearer(generate_token(u)) : u \in DOMAIN users}

CatBooks == <<"B", "o", "o", "k", "s">>
CatTech == <<"T", "e", "c", "h">>
TitleA == <<"A">>
TitleB == <<"B">>
TextX == <<"x">>

\* todos of levels whose scores tie (2 and 4 with 4 and 1, both 2.8) and of
\* levels whose score is not the double nearest to its decimal (3 and 1), and a
\* payload out of range
TodoBodies ==
    {[title |-> JStr(TitleA), importance |-> JInt(p[1]), urgency |-> JInt(p[2])] :
        p \in {<<2, 4>>, <<4, 1>>, <<3, 1>>}}
        \cup {[title |-> JStr(TitleA), importance |-> JInt(5)]}

\* the levels, and ints on both sides of them
Levels == (0 - 2)..7

\* the ids a client asks for: every id an item can have, and one that none has
ItemIds == 1..(MaxItems + 1)
\* a category id that no category has
NoCategory == MaxCategories + 1

CategoryBodies ==
    {[name |-> JStr(CatBooks)],
     [name |-> JStr(<<>>)],
     [description |-> JStr(TextX)]}

MoreCategoryBodies ==
    {[name |-> JStr(CatBooks)],
     [name |-> JStr(CatTech)],
     [name |-> JStr(CatTech), description |-> JStr(TextX)],
     [name |-> JStr(Chars(101, "x"))]}

\* every header with one payload, and the headers hs with every payload
CreateCategoryRequests(hs, bodies) ==
    {Req("create_category", h, [name |-> JStr(CatBooks)], 0) : h \in Headers}
        \cup {Req("create_category", h, b, 0) : h \in hs, b \in bodies}

GetItemRequests(hs) ==
    {Req("get_item", h, EmptyDict, 1) : h \in Headers}
        \cup {Req("get_item", h, EmptyDict, id) : h \in hs, id \in ItemIds}

CreateItemBodies ==
    {[title |-> JStr(TitleA)],
     [title |-> JStr(TitleA), category_id |-> JInt(1)],
     [title |-> JStr(TitleA), category_id |-> JInt(NoCategory)],
     [title |-> JStr(TitleA), status |-> JStr(StatusInvalid)],
     [title |-> JStr(<<>>)],
     [title |-> JStr(Chars(201, "x"))],
     [description |-> JStr(TextX)]}

CreateItemRequests(hs, bodies) ==
    {Req("create_item", h, [title |-> JStr(TitleA)], 0) : h \in Headers}
        \cup {Req("create_item", h, b, 0) : h \in hs, b \in bodies}

UpdateItemBodies ==
    {[title |-> JStr(TitleB)],
     [category_id |-> JInt(1)],
     [title |-> JStr(TitleB), category_id |-> JInt(NoCategory)],
     [title |-> JNull, status |-> JStr(StatusInvalid)],
     [title |-> JStr(<<>>)]}

\* payloads that leave out fields, or carry them as null
PartialBodies ==
    {[description |-> JStr(TextX)],
     [title |-> JNull, status |-> JStr(StatusArchived)],
     [title |-> JStr(TitleB), description |-> JNull, category_id |-> JInt(1)],
     [category_id |-> JNull],
     EmptyDict}

UpdateItemRequests(hs, bodies) ==
    {Req("update_item", h, [title |-> JStr(TitleB)], 1) : h \in Headers}
        \cup {Req("update_item", h, b, id) : h \in hs, b \in bodies, id \in ItemIds}

DeleteItemRequests(hs) ==
    {Req("delete_item", h, EmptyDict, 1) : h \in Headers}
        \cup {Req("delete_item", h, EmptyDict, id) : h \in hs, id \in ItemIds}

-----------------------------------------------------------------------------
(* The sequential service: one request is handled from start to end *)

Clients == {"c1", "c2"}

\* a client with no request in the service
Idle == [pc |-> "idle", req |-> NoReq, user |-> None, resp |-> NoResp]

Init ==
    /\ users = <<>>
    /\ categories = <<>>
    /\ items = <<>>
    /\ todos = <<>>
    /\ now = 0
    /\ pc = "idle"
    /\ req = NoReq
    /\ resp = NoResp
    /\ flight = [c \in Clients |-> Idle]

\* the keys the tables hand out stay within the bounds
WithinBounds(o) ==
    /\ DOMAIN o.users \subseteq 1..MaxUsers
    /\ DOMAIN o.categories \subseteq 1..MaxCategories
    /\ DOMAIN o.items \subseteq 1..MaxItems

\* the handler of request r runs to its return
Do(r) ==
    /\ pc = "idle"
    /\ \E o \in Handle(r) :
        /\ WithinBounds(o)
        /\ req' = r
        /\ resp' = o.resp
        /\ users' = o.users
        /\ categories' = o.categories
        /\ items' = o.items
    /\ pc' = "done"
    /\ UNCHANGED <<todos, now, flight>>

\* the response leaves and the request context is torn down
Deliver ==
    /\ pc = "done"
    /\ pc' = "idle"
    /\ req' = NoReq
    /\ resp' = NoResp
    /\ UNCHANGED <<users, categories, items, todos, now, flight>>

Tick ==
    /\ pc = "idle"
    /\ now + TickHours \in Times
    /\ now' = now + TickHours
    /\ UNCHANGED <<users, categories, items, todos, pc, req, resp, flight>>

\* the clock runs on for one more token lifetime after the last login
TickLate ==
    /\ pc = "idle"
    /\ now < MaxTicks * TickHours + TOKEN_EXPIRATION_HOURS
    /\ now' = now + TickHours
    /\ UNCHANGED <<users, categories, items, todos, pc, req, resp, flight>>

\* the handler of a todo request runs to its return
DoTodo(r, outcomes) ==
    /\ pc = "idle"
    /\ \E o \in outcomes :
        /\ DOMAIN o.todos \subseteq 1..MaxItems
        /\ req' = r
        /\ resp' = o.resp
        /\ todos' = o.todos
    /\ pc' = "done"
    /\ UNCHANGED <<users, categories, items, now, flight>>

\* a relationship without the cascade: the todos stay
CascadeNone(u) == todos
\* User.todos, cascade="all, delete-orphan": the todos deleted with user u
CascadeTodos(u) == [i \in {j \in DOMAIN todos : todos[j].owner_id # u} |-> todos[i]]
\* the same for the items of the item variant
CascadeItems(u) == [i \in {j \in DOMAIN items : items[j].owner_id # u} |-> items[i]]

\* db.session.delete(user) and its commit; no route does it
DeleteUser ==
    /\ pc = "idle"
    /\ \E u \in DOMAIN users :
        /\ users' = Delete(users, u)
        /\ todos' = CascadeTodos(u)
        /\ items' = CascadeItems(u)
    /\ UNCHANGED <<categories, now, pc, req, resp, flight>>

Register(pairs, others) == \E r \in RegisterRequests(pairs, others) : Do(r)
Login(passwords, others) == \E r \in LoginRequests(passwords, others) : Do(r)
Me == \E r \in MeRequests : Do(r)
GetCategories == \E r \in {Req("get_categories", NoHeader, EmptyDict, 0)} : Do(r)
CreateCategory(hs, bodies) == \E r \in CreateCategoryRequests(hs, bodies) : Do(r)
GetItems == \E r \in {Req("get_items", h, EmptyDict, 0) : h \in Headers} : Do(r)
GetItem(hs) == \E r \in GetItemRequests(hs) : Do(r)
CreateItem(hs, bodies) == \E r \in CreateItemRequests(hs, bodies) : Do(r)
UpdateItem(hs, bodies) == \E r \in UpdateItemRequests(hs, bodies) : Do(r)
DeleteItem(hs) == \E r \in DeleteItemRequests(hs) : Do(r)
GetTodos == \E r \in {Req("get_todos", h, EmptyDict, 0) : h \in Fresh \cup {NoHeader}} :
                DoTodo(r, get_todos(r))
CreateTodo == \E r \in {Req("create_todo", h, b, 0) : h \in Fresh, b \in TodoBodies} :
                  DoTodo(r, create_todo(r))

\* a call of the static methods Todo.get_level_name and Todo.get_level_icon
GetLevel ==
    /\ pc = "idle"
    /\ \E level \in Levels :
        /\ req' = Req("get_level", NoHeader, EmptyDict, level)
        /\ resp' = R(200, "", [kind |-> "level",
                               name |-> get_level_name(level),
                               icon |-> get_level_icon(level)], TRUE)
    /\ pc' = "done"
    /\ UNCHANGED <<users, categories, items, todos, now, flight>>
Health == \E r \in {Req("health", NoHeader, EmptyDict, 0)} : Do(r)

\* Every endpoint, with each payload sent by a client that has just logged in;
\* the two accounts; the clock stands still.
Next ==
    \/ Register(Accounts, {})
    \/ Login({Password1}, {})
    \/ Me
    \/ GetCategories
    \/ CreateCategory(Fresh, CategoryBodies)
    \/ GetItems
    \/ GetItem(Fresh)
    \/ CreateItem(Fresh, CreateItemBodies)
    \/ UpdateItem(Fresh, UpdateItemBodies)
    \/ DeleteItem(Fresh)
    \/ Health
    \/ Deliver

Spec == Init /\ [][Next]_vars

\* Accounts, tokens and categories under a clock that advances: every pairing
\* of email and username, every token a client can hold.
NextAuth ==
    \/ Register(Pairings, RejectedRegistrations)
    \/ Login({Password1, WrongPass}, RejectedLogins)
    \/ Me
    \/ GetCategories
    \/ CreateCategory(Fresh, MoreCategoryBodies)
    \/ Tick
    \/ Deliver

SpecAuth == Init /\ [][NextAuth]_vars

\* the item endpoints while the clock runs and tokens expire
NextClock ==
    \/ Register(Accounts, {})
    \/ GetItems
    \/ CreateItem(Fresh, CreateItemBodies)
    \/ DeleteItem(Fresh)
    \/ Tick
    \/ Deliver

SpecClock == Init /\ [][NextClock]_vars

\* the todo variant of the resource store
NextTodo ==
    \/ Register(Accounts, {})
    \/ CreateTodo
    \/ GetTodos
    \/ Tick
    \/ Deliver

SpecTodo == Init /\ [][NextTodo]_vars

\* serialisation: every endpoint that answers with a user, an item or a todo,
\* and the level methods
NextDict ==
    \/ Register(Accounts, {})
    \/ Login({Password1, WrongPass}, {})
    \/ Me
    \/ CreateItem(Fresh, {[title |-> JStr(TitleA)]})
    \/ GetItems
    \/ CreateTodo
    \/ GetTodos
    \/ GetLevel
    \/ Deliver

SpecDict == Init /\ [][NextDict]_vars

\* items written with every kind of category reference: none, null, that of
\* a category, that of no category, and zero
CategoryRefs == {JNull, JInt(0), JInt(1), JInt(NoCategory)}

NextCategory ==
    \/ Register({<<EmailA, NameAbc>>}, {})
    \/ CreateCategory(Fresh, {[name |-> JStr(CatBooks)]})
    \/ CreateItem(Fresh, {[title |-> JStr(TitleA)]}
                            \cup {[title |-> JStr(TitleA), category_id |-> c] : c \in CategoryRefs})
    \/ UpdateItem(Fresh, {[title |-> JStr(TitleB)]} \cup {[category_id |-> c] : c \in CategoryRefs})
    \/ Deliver

SpecCategory == Init /\ [][NextCategory]_vars

\* the endpoints that take a body, with and without a token, with payloads
\* that pass and payloads that fail, on items that exist and ids that do not
NextOrder ==
    \/ Register(Accounts, {})
    \/ CreateCategory(Fresh \cup {NoHeader}, {[name |-> JStr(CatBooks)], [name |-> JStr(<<>>)]})
    \/ CreateItem(Fresh \cup {NoHeader},
                  {[title |-> JStr(TitleA)], [title |-> JStr(<<>>)], [description |-> JStr(TextX)],
                   [title |-> JStr(Chars(201, "x"))],
                   [title |-> JStr(TitleA), status |-> JStr(StatusInvalid)]})
    \/ UpdateItem(Fresh \cup {NoHeader},
                  {[title |-> JStr(TitleB)],
                   [status |-> JStr(StatusInvalid)],
                   [title |-> JStr(TitleB), description |-> JStr(TextX),
                    category_id |-> JInt(NoCategory)],
                   [status |-> JStr(StatusInvalid), category_id |-> JInt(NoCategory)]})
    \/ GetItem(Fresh)
    \/ Deliver

SpecOrder == Init /\ [][NextOrder]_vars

\* users come and go with their items and todos
NextCascade ==
    \/ Register(Accounts, {})
    \/ CreateItem(Fresh, {[title |-> JStr(TitleA)]})
    \/ CreateTodo
    \/ DeleteUser
    \/ Deliver

SpecCascade == Init /\ [][NextCascade]_vars

\* items created, read, written with payloads that name an owner, and deleted
NextOwner ==
    \/ Register(Accounts, {})
    \/ CreateItem(Fresh, {[title |-> JStr(TitleA)]}
                            \cup {[title |-> JStr(TitleA), owner_id |-> JInt(u)] : u \in 1..MaxUsers})
    \/ UpdateItem(Fresh, {[title |-> JStr(TitleB)]}
                            \cup {[status |-> JStr(StatusArchived), owner_id |-> JInt(u)] :
                                     u \in 1..MaxUsers})
    \/ GetItem(Fresh)
    \/ DeleteItem(Fresh)
    \/ Deliver

SpecOwner == Init /\ [][NextOwner]_vars

\* todos created and updated with levels inside and outside 1..4, and with none
LevelPayloads ==
    {[importance |-> JInt(i)] : i \in {0, 1, 4, 5}}
        \cup {[urgency |-> JInt(u)] : u \in {0, 3, 5}}
        \cup {[importance |-> JInt(3), urgency |-> JInt(5)], EmptyDict}

NextLevels ==
    \/ Register({<<EmailA, NameAbc>>}, {})
    \/ \E r \in {Req("create_todo", h, [title |-> JStr(TitleA)] @@ b, 0) :
                    h \in Fresh, b \in LevelPayloads} :
           DoTodo(r, create_todo(r))
    \/ \E r \in {Req("update_todo", h, [description |-> JStr(TextX)] @@ b, id) :
                    h \in Fresh, b \in LevelPayloads, id \in 1..MaxItems} :
           DoTodo(r, update_todo(r))
    \/ Deliver

SpecLevels == Init /\ [][NextLevels]_vars

\* tokens from their issue to well past their expiry
NextToken ==
    \/ Register(Accounts, {})
    \/ Login({Password1}, {})
    \/ Me
    \/ TickLate
    \/ Deliver

SpecToken == Init /\ [][NextToken]_vars

\* one user's items under partial updates
NextPatch ==
    \/ Register({<<EmailA, NameAbc>>}, {})
    \/ CreateCategory(Fresh, {[name |-> JStr(CatBooks)]})
    \/ CreateItem(Fresh, {[title |-> JStr(TitleA)]})
    \/ UpdateItem(Fresh, PartialBodies)
    \/ Deliver

SpecPatch == Init /\ [][NextPatch]_vars

-----------------------------------------------------------------------------
(* The concurrent service: the requests of two clients are handled at the   *)
(* same time, each in its own thread with its own request context and its   *)
(* own database session.  A step is one access to the database together     *)
(* with the computation on locals that follows it.                          *)

RaceRequests ==
    RegisterRequests(Pairings, {})
        \cup {Req("create_category", h, [name |-> JStr(CatBooks)], 0) : h \in Fresh \cup {NoHeader}}
        \cup {Req("me", h, EmptyDict, 0) : h \in Fresh \cup {NoHeader}}

Answer(c, r) == flight' = [flight EXCEPT ![c].pc = "done", ![c].resp = r]
Goto(c, label) == flight' = [flight EXCEPT ![c].pc = label]

\* a guard that keeps the resolved user in one place shared by all requests:
\* the view reads whatever another request in flight left there
current_user_of_shared(c) ==
    LET others == {d \in Clients \ {c} : flight[d].user # None}
    IN  IF others = {} THEN flight[c].user[1]
        ELSE flight[CHOOSE d \in others : TRUE].user[1]
\* auth.py line 62: the user that login_required resolved is passed to the view
\* as its current_user argument
current_user_of(c) == flight[c].user[1]

\* the request enters; register has no guard, and its validation reads no table
Arrive(c) ==
    /\ flight[c].pc = "idle"
    /\ \E r \in RaceRequests :
        LET problem == JsonProblem(<<"email", "username", "password">>, r)
        IN  flight' = [flight EXCEPT ![c] =
                IF r.op # "register" THEN [Idle EXCEPT !.pc = "guard", !.req = r]
                ELSE IF problem # None
                THEN [Idle EXCEPT !.pc = "done", !.req = r, !.resp = problem[1]]
                ELSE IF RegisterRequest(r.json) = None
                THEN [Idle EXCEPT !.pc = "done", !.req = r, !.resp = ValidationFailed]
                ELSE [Idle EXCEPT !.pc = "check_email", !.req = r]]
    /\ UNCHANGED <<users, categories, items, todos, now, pc, req, resp>>

\* login_required: get_current_user reads the users table
Guard(c) ==
    /\ flight[c].pc = "guard"
    /\ LET r == flight[c].req
           user == get_current_user(r.auth)
           problem == JsonProblem(<<"name">>, r)
       IN  flight' = [flight EXCEPT ![c] =
               IF user = None THEN [@ EXCEPT !.pc = "done", !.resp = Unauthenticated]
               ELSE IF r.op = "me" THEN [@ EXCEPT !.pc = "view", !.user = user]
               ELSE IF problem # None
               THEN [@ EXCEPT !.pc = "done", !.user = user, !.resp = problem[1]]
               ELSE IF CategoryCreateRequest(r.json) = None
               THEN [@ EXCEPT !.pc = "done", !.user = user, !.resp = ValidationFailed]
               ELSE [@ EXCEPT !.pc = "check_name", !.user = user]]
    /\ UNCHANGED <<users, categories, items, todos, now, pc, req, resp>>

\* api.py line 92
View(c) ==
    /\ flight[c].pc = "view"
    /\ \E o \in get_current_user_info_view(flight[c].req, current_user_of(c)) :
        Answer(c, o.resp)
    /\ UNCHANGED <<users, categories, items, todos, now, pc, req, resp>>

\* api.py lines 43-44
CheckEmail(c) ==
    /\ flight[c].pc = "check_email"
    /\ IF UserByEmail(RegisterRequest(flight[c].req.json)[1].email) # {}
       THEN Answer(c, R(400, "Email already registered", NoBody, TRUE))
       ELSE Goto(c, "check_username")
    /\ UNCHANGED <<users, categories, items, todos, now, pc, req, resp>>

\* api.py lines 46-47
CheckUsername(c) ==
    /\ flight[c].pc = "check_username"
    /\ IF UserByUsername(RegisterRequest(flight[c].req.json)[1].username) # {}
       THEN Answer(c, R(400, "Username already taken", NoBody, TRUE))
       ELSE Goto(c, "commit_user")
    /\ UNCHANGED <<users, categories, items, todos, now, pc, req, resp>>

\* api.py lines 49-63
CommitRegister(c) ==
    /\ flight[c].pc = "commit_user"
    /\ LET o == register_commit(RegisterRequest(flight[c].req.json)[1])
       IN  /\ Answer(c, o.resp)
           /\ users' = o.users
    /\ UNCHANGED <<categories, items, todos, now, pc, req, resp>>

\* api.py lines 118-119
CheckName(c) ==
    /\ flight[c].pc = "check_name"
    /\ IF CategoryByName(CategoryCreateRequest(flight[c].req.json)[1].name) # {}
       THEN Answer(c, R(400, "Category already exists", NoBody, TRUE))
       ELSE Goto(c, "commit_category")
    /\ UNCHANGED <<users, categories, items, todos, now, pc, req, resp>>

\* api.py lines 121-125
CommitCreateCategory(c) ==
    /\ flight[c].pc = "commit_category"
    /\ LET o == create_category_commit(CategoryCreateRequest(flight[c].req.json)[1])
       IN  /\ Answer(c, o.resp)
           /\ categories' = o.categories
    /\ UNCHANGED <<users, items, todos, now, pc, req, resp>>

\* the response leaves
Finish(c) ==
    /\ flight[c].pc = "done"
    /\ flight' = [flight EXCEPT ![c] = Idle]
    /\ UNCHANGED <<users, categories, items, todos, now, pc, req, resp>>

NextRace ==
    \E c \in Clients :
        \/ Arrive(c)
        \/ Guard(c)
        \/ View(c)
        \/ CheckEmail(c)
        \/ CheckUsername(c)
        \/ CommitRegister(c)
        \/ CheckName(c)
        \/ CommitCreateCategory(c)
        \/ Finish(c)

SpecRace == Init /\ [][NextRace]_vars

-----------------------------------------------------------------------------
(* Terms of the properties *)

\* a step in which the sequential service handles a request from start to end
Handled == pc = "idle" /\ pc' = "done"

StoreUnchanged == users' = users /\ categories' = categories /\ items' = items

\* the users that hold the token of header h: it was issued to them by a login
\* or a registration and has not expired
Holders(h) ==
    {u \in DOMAIN users :
        \E t \in IssueTimes(u) :
            h = Bearer(IssuedAt(u, t)) /\ now < t + TOKEN_EXPIRATION_HOURS}

ItemOps == {"get_item", "update_item", "delete_item"}
ProtectedOps ==
    {"me", "create_category", "get_items", "get_item", "create_item",
     "update_item", "delete_item"}

-----------------------------------------------------------------------------
(* Properties of the item endpoints, under Spec *)

\* C1: GET, PATCH and DELETE on /api/items/<id> by an authenticated user answer
\* 404 when no item has the id, whoever calls, and 403 (not 404) when the item
\* exists and belongs to another user.
C1_ExistenceBeforeOwnership ==
    [][(Handled /\ req'.op \in ItemOps /\ Holders(req'.auth) # {}) =>
        /\ req'.id \notin DOMAIN items => resp'.status = 404
        /\ (req'.id \in DOMAIN items /\ items[req'.id].owner_id \notin Holders(req'.auth))
              => resp'.status = 403]_vars

C1_Witness ==
    /\ pc = "done"
    /\ req.op \in ItemOps
    /\ req.id \in DOMAIN items
    /\ Holders(req.auth) # {}
    /\ items[req.id].owner_id \notin Holders(req.auth)
    /\ resp.status = 403

\* C2: an item's stored fields change, or the item goes, only by a PATCH or a
\* DELETE on it by its owner; a PATCH or DELETE by another authenticated user is
\* answered 403 and leaves every stored row as it was.
C2_OnlyOwnerMutates ==
    [][/\ \A i \in DOMAIN items :
            (i \notin DOMAIN items' \/ items'[i] # items[i]) =>
                /\ Handled
                /\ req'.op \in {"update_item", "delete_item"}
                /\ req'.id = i
                /\ items[i].owner_id \in Holders(req'.auth)
       /\ (/\ Handled
           /\ req'.op \in {"update_item", "delete_item"}
           /\ req'.id \in DOMAIN items
           /\ Holders(req'.auth) # {}
           /\ items[req'.id].owner_id \notin Holders(req'.auth))
              => (resp'.status = 403 /\ StoreUnchanged)]_vars

C2_Witness ==
    /\ pc = "done"
    /\ req.op \in {"update_item", "delete_item"}
    /\ req.id \in DOMAIN items
    /\ Holders(req.auth) # {}
    /\ items[req.id].owner_id \notin Holders(req.auth)
    /\ resp.status = 403
    /\ \E i \in DOMAIN items : items[i].title = TitleB

\* the header carries no token the service accepts: it is absent, does not start
\* with "Bearer ", or its token is rejected by decode_token
Rejected(h) == Len(h) < 2 \/ h[1] # "Bearer" \/ decode_token(h[2]) = None

\* C3: on every endpoint behind login_required, a request whose header is absent,
\* has another scheme or carries a token decode_token rejects is answered 401
\* "Authentication required", the view is not entered and the store is unchanged.
C3_GuardRejects ==
    [][(Handled /\ req'.op \in ProtectedOps /\ Rejected(req'.auth)) =>
        /\ resp'.status = 401
        /\ resp'.error = "Authentication required"
        /\ ~resp'.ran
        /\ StoreUnchanged]_vars

C3_Witness ==
    /\ pc = "done"
    /\ req.op = "delete_item"
    /\ req.id \in DOMAIN items
    /\ Len(req.auth) = 2
    /\ req.auth[1] # "Bearer"
    /\ Holders(Bearer(req.auth[2])) = {items[req.id].owner_id}
    /\ resp.status = 401

-----------------------------------------------------------------------------
(* Properties of concurrent requests, under SpecRace *)

\* the user named by the token of the request of client c
TokenUser(c) == flight[c].req.auth[2].payload.user_id

\* C4: when requests with valid tokens of different users are in flight together,
\* each view receives as current_user the user of its own request's token, and
\* answers with that user, in every interleaving.
C4_OwnIdentity ==
    \A c \in Clients :
        /\ flight[c].pc \in {"view", "check_name", "commit_category"}
              => current_user_of(c) = TokenUser(c)
        /\ (flight[c].pc = "done" /\ flight[c].req.op = "me" /\ flight[c].resp.status = 200)
              => flight[c].resp.body.user.id = TokenUser(c)

C4_Witness ==
    \E c, d \in Clients :
        /\ flight[c].pc = "done"
        /\ flight[c].req.op = "me"
        /\ flight[c].resp.status = 200
        /\ flight[d].pc \in {"view", "check_name", "commit_category"}
        /\ TokenUser(c) # TokenUser(d)

\* C5: under every interleaving of register requests and of create-category
\* requests, no two stored users share an email or a username and no two stored
\* categories share a name; the insert of a request that passed its check after
\* another's insert fails at the unique constraint and stores nothing.
C5_UniqueUnderRaces ==
    /\ \A i, j \in DOMAIN users :
          i # j => (users[i].email # users[j].email /\ users[i].username # users[j].username)
    /\ \A i, j \in DOMAIN categories :
          i # j => categories[i].name # categories[j].name

\* a register request that passed both checks and then failed at the insert
C5_Witness ==
    \E c \in Clients :
        /\ flight[c].pc = "done"
        /\ flight[c].req.op = "register"
        /\ flight[c].resp = InternalServerError
        /\ UserByEmail(RegisterRequest(flight[c].req.json)[1].email) # {}

\* the unique field of a valid register or create-category request is stored
Taken(r) ==
    IF r.op = "register"
    THEN /\ JsonProblem(<<"email", "username", "password">>, r) = None
         /\ RegisterRequest(r.json) # None
         /\ \/ UserByEmail(RegisterRequest(r.json)[1].email) # {}
            \/ UserByUsername(RegisterRequest(r.json)[1].username) # {}
    ELSE /\ r.op = "create_category"
         /\ JsonProblem(<<"name">>, r) = None
         /\ CategoryCreateRequest(r.json) # None
         /\ CategoryByName(CategoryCreateRequest(r.json)[1].name) # {}

\* C6: every register or create-category request that stores no row because its
\* email, username or category name is taken is answered 400, in every
\* interleaving, the loser of a check-then-insert race included.
C6_DuplicateAnswered400 ==
    \A c \in Clients :
        (/\ flight[c].pc = "done"
         /\ flight[c].resp.ran
         /\ flight[c].resp.status # 201
         /\ Taken(flight[c].req))
            => flight[c].resp.status = 400

-----------------------------------------------------------------------------
(* Properties of registration and login, under SpecAuth *)

ValidRegister(r) ==
    /\ r.op = "register"
    /\ JsonProblem(<<"email", "username", "password">>, r) = None
    /\ RegisterRequest(r.json) # None

\* C7: a valid register request whose email is stored is answered 400 "Email
\* already registered" even when its username is stored too; "Username already
\* taken" is answered only when the email is free and the username is stored; in
\* both cases no user row is added.
C7_EmailCheckedFirst ==
    [][(Handled /\ ValidRegister(req')) =>
        LET data == RegisterRequest(req'.json)[1]
        IN  /\ UserByEmail(data.email) # {} =>
                /\ resp'.status = 400
                /\ resp'.error = "Email already registered"
                /\ users' = users
            /\ resp'.error = "Username already taken" =>
                /\ resp'.status = 400
                /\ UserByEmail(data.email) = {}
                /\ UserByUsername(data.username) # {}
                /\ users' = users]_vars

\* both the email and the username of the request are stored, in different rows
C7_Witness ==
    /\ pc = "done"
    /\ ValidRegister(req)
    /\ resp.error = "Email already registered"
    /\ \E i, j \in DOMAIN users :
          /\ i # j
          /\ users[i].email = RegisterRequest(req.json)[1].email
          /\ users[j].username = RegisterRequest(req.json)[1].username

\* C8: a valid register request whose email and username are both unused adds
\* exactly one user row, leaves every other row as it was and is answered 201
\* with a token bound to the new user's id; a GET /api/auth/me that carries the
\* token of a registration, while it is in force, is answered 200 with that
\* user's id, username and email.
C8_RegisterThenMe ==
    [][/\ (/\ Handled
           /\ ValidRegister(req')
           /\ UserByEmail(RegisterRequest(req'.json)[1].email) = {}
           /\ UserByUsername(RegisterRequest(req'.json)[1].username) = {})
              => \E id \in DOMAIN users' \ DOMAIN users :
                    /\ DOMAIN users' = DOMAIN users \cup {id}
                    /\ \A i \in DOMAIN users : users'[i] = users[i]
                    /\ users'[id].email = RegisterRequest(req'.json)[1].email
                    /\ users'[id].username = RegisterRequest(req'.json)[1].username
                    /\ categories' = categories
                    /\ items' = items
                    /\ resp'.status = 201
                    /\ resp'.body.token = IssuedAt(id, now)
                    /\ resp'.body.token.payload.user_id = id
                    /\ resp'.body.user.id = id
       /\ \A u \in DOMAIN users :
            (/\ Handled
             /\ req'.op = "me"
             /\ req'.auth = Bearer(IssuedAt(u, users[u].created_at))
             /\ now < users[u].created_at + TOKEN_EXPIRATION_HOURS)
                => /\ resp'.status = 200
                   /\ resp'.body.user.id = u
                   /\ resp'.body.user.username = users[u].username
                   /\ resp'.body.user.email = users[u].email
                   /\ StoreUnchanged]_vars

\* the second user's registration token is presented after the clock has moved
C8_Witness ==
    /\ pc = "done"
    /\ req.op = "me"
    /\ resp.status = 200
    /\ \E u \in DOMAIN users :
          /\ u # 1
          /\ req.auth = Bearer(IssuedAt(u, users[u].created_at))
          /\ users[u].created_at < now
          /\ resp.body.user.id = u

ValidLogin(r) ==
    /\ r.op = "login"
    /\ JsonProblem(<<"email", "password">>, r) = None
    /\ LoginRequest(r.json) # None

\* the users with the email of the request whose stored hash the password matches
Matching(data) ==
    {u \in DOMAIN users :
        /\ users[u].email = data.email
        /\ check_password_hash(users[u].password_hash, data.password)}

\* C9: a login request with a well-formed email is answered 200 with a token
\* bound to the matching user's id exactly when a user with that email exists
\* and the password matches its stored hash; an unknown email and a wrong
\* password are both answered 401 "Invalid email or password"; login never
\* changes the store.
C9_LoginOutcome ==
    [][(Handled /\ req'.op = "login") =>
        /\ StoreUnchanged
        /\ ValidLogin(req') =>
            LET data == LoginRequest(req'.json)[1]
            IN  /\ resp'.status = 200 <=> Matching(data) # {}
                /\ resp'.status = 200 =>
                    /\ resp'.body.token.payload.user_id \in Matching(data)
                    /\ resp'.body.token = IssuedAt(resp'.body.token.payload.user_id, now)
                /\ resp'.status # 200 =>
                    /\ resp'.status = 401
                    /\ resp'.error = "Invalid email or password"]_vars

\* a wrong password for a stored email
C9_Witness ==
    /\ pc = "done"
    /\ ValidLogin(req)
    /\ UserByEmail(LoginRequest(req.json)[1].email) # {}
    /\ Matching(LoginRequest(req.json)[1]) = {}
    /\ resp.status = 401

-----------------------------------------------------------------------------
(* Properties of token expiry, under SpecClock *)

\* the tokens signed by the server that have expired, of stored users and of
\* a user that is not stored
ExpiredTokens ==
    {IssuedAt(u, t) : u \in 1..(MaxUsers + 1), t \in {s \in Times : s + TOKEN_EXPIRATION_HOURS <= now}}

\* one request to each protected endpoint and item id
Probes ==
    {Req("me", NoHeader, EmptyDict, 0),
     Req("create_category", NoHeader, [name |-> JStr(CatBooks)], 0),
     Req("get_items", NoHeader, EmptyDict, 0),
     Req("create_item", NoHeader, [title |-> JStr(TitleA)], 0)}
        \cup {Req(op, NoHeader, EmptyDict, id) : op \in {"get_item", "delete_item"}, id \in ItemIds}
        \cup {Req("update_item", NoHeader, [title |-> JStr(TitleB)], id) : id \in ItemIds}

With(r, token) == [r EXCEPT !.auth = Bearer(token)]

\* C10: on every protected endpoint and in every state of the store, a request
\* with an expired, correctly signed token and the same request with a malformed
\* token get the same response, 401 "Authentication required": decode_token
\* gives None for both.
C10_ExpiredAsMalformed ==
    /\ ExpiredTokens # {} => decode_token(MalformedToken) = None
    /\ \A te \in ExpiredTokens : decode_token(te) = None
    /\ \A r \in Probes :
          LET malformed == Handle(With(r, MalformedToken))
          IN  \A te \in ExpiredTokens :
                /\ Handle(With(r, te)) = malformed
                /\ \A o \in malformed :
                      /\ o.resp.status = 401
                      /\ o.resp.error = "Authentication required"
                      /\ o.users = users /\ o.categories = categories /\ o.items = items

\* the owner of a stored item asks to delete it with an expired token
C10_Witness ==
    /\ pc = "done"
    /\ req.op = "delete_item"
    /\ req.id \in DOMAIN items
    /\ Len(req.auth) = 2
    /\ req.auth[1] = "Bearer"
    /\ req.auth[2] \in ExpiredTokens
    /\ req.auth[2].payload.user_id = items[req.id].owner_id
    /\ resp = Unauthenticated

-----------------------------------------------------------------------------
(* Properties of the token service, under SpecToken *)

\* C11: the token generate_token(u) issues at time t embeds user_id = u, the
\* issue time t and an expiry 24 hours after t; decode_token gives its payload,
\* with user_id = u, at every time before the expiry and None at every time after.
C11_TokenLifetime ==
    \A u \in 1..MaxUsers :
        /\ generate_token(u).payload = [user_id |-> u, exp |-> now + 24, iat |-> now]
        /\ generate_token(u) = IssuedAt(u, now)
        /\ \A t \in {k * TickHours : k \in 0..(now \div TickHours)} :
              /\ now < t + 24 =>
                    /\ decode_token(IssuedAt(u, t)) # None
                    /\ decode_token(IssuedAt(u, t))[1].user_id = u
              /\ now > t + 24 => decode_token(IssuedAt(u, t)) = None

\* a token a login returned is presented after its expiry has passed
C11_Witness ==
    /\ pc = "done"
    /\ req.op = "me"
    /\ \E u \in DOMAIN users :
          \E t \in IssueTimes(u) :
              /\ req.auth = Bearer(IssuedAt(u, t))
              /\ now > t + 24
    /\ resp.status = 401

-----------------------------------------------------------------------------
(* Properties of partial updates, under SpecPatch *)

\* key k is present in payload d with a value that is not null
Given(d, k) == k \in DOMAIN d /\ d[k].t # "null"

\* C12: a successful PATCH overwrites exactly the fields present in the payload
\* with a non-null value; a field that is absent, or present as null, keeps its
\* stored value; owner_id, id and created_at are never changed by PATCH.
C12_PartialUpdate ==
    [][(Handled /\ req'.op = "update_item" /\ resp'.status = 200) =>
        LET d == req'.json
            old == items[req'.id]
            new == items'[req'.id]
        IN  /\ DOMAIN items' = DOMAIN items
            /\ \A j \in DOMAIN items \ {req'.id} : items'[j] = items[j]
            /\ new.title = IF Given(d, "title") THEN d.title.s ELSE old.title
            /\ new.description =
                  IF Given(d, "description") THEN Some(d.description.s) ELSE old.description
            /\ new.category_id =
                  IF Given(d, "category_id") THEN Some(d.category_id.n) ELSE old.category_id
            /\ new.status = IF Given(d, "status") THEN d.status.s ELSE old.status
            /\ new.owner_id = old.owner_id
            /\ new.created_at = old.created_at
            /\ resp'.body.item.id = req'.id]_vars

\* a payload with a null title and no description is applied to an item that
\* has a description: the status changes, the title and the description stay
C12_Witness ==
    /\ pc = "done"
    /\ req.op = "update_item"
    /\ resp.status = 200
    /\ "title" \in DOMAIN req.json
    /\ req.json.title.t = "null"
    /\ "description" \notin DOMAIN req.json
    /\ items[req.id].title = TitleA
    /\ items[req.id].description = Some(TextX)
    /\ items[req.id].status = StatusArchived

-----------------------------------------------------------------------------
(* Properties of the item listing, under SpecClock *)

\* C13: GET /api/items by an authenticated user returns exactly the stored
\* items whose owner_id is the caller's id, each once and none of another
\* user, ordered by creation time descending (newest first).
C13_OwnItemsNewestFirst ==
    [][(Handled /\ req'.op = "get_items" /\ Holders(req'.auth) # {}) =>
        /\ resp'.status = 200
        /\ StoreUnchanged
        /\ \A u \in Holders(req'.auth) :
              LET l == resp'.body.items
                  own == {i \in DOMAIN items : items[i].owner_id = u}
              IN  /\ DOMAIN l = 1..Cardinality(own)
                  /\ {l[k].id : k \in DOMAIN l} = own
                  /\ \A k \in DOMAIN l : l[k] = ItemToDict(l[k].id, items[l[k].id])
                  /\ \A j, k \in DOMAIN l :
                        j < k => items[l[j].id].created_at >= items[l[k].id].created_at]_vars

\* the caller's two items were created at different times and come newest
\* first
C13_Witness ==
    /\ pc = "done"
    /\ req.op = "get_items"
    /\ resp.status = 200
    /\ DOMAIN resp.body.items = 1..2
    /\ items[resp.body.items[1].id].created_at > items[resp.body.items[2].id].created_at

-----------------------------------------------------------------------------
(* Todos *)

\* the int n as a float
Float(n) == <<64 * n, 0, 0>>

\* the floating tolerance of the comparisons: 2^-44
Tolerance == <<0, 0, 2^10>>
Near(x, y) == ~FloatLess(Sum(x, Tolerance), y) /\ ~FloatLess(Sum(y, Tolerance), x)

\* the todos of the response at hand
Served == IF pc = "done" /\ resp.body.kind = "todos"
          THEN {resp.body.todos[k] : k \in DOMAIN resp.body.todos}
          ELSE IF pc = "done" /\ resp.body.kind = "todo" THEN {resp.body.todo}
          ELSE {}

\* C14: GET /api/todos returns the caller's todos ordered by priority score
\* descending, and todos of equal score in creation order, first created
\* first.
C14_TodosByPriority ==
    [][(Handled /\ req'.op = "get_todos" /\ Holders(req'.auth) # {}) =>
        /\ resp'.status = 200
        /\ todos' = todos
        /\ \A u \in Holders(req'.auth) :
              LET l == resp'.body.todos
                  own == {i \in DOMAIN todos : todos[i].owner_id = u}
              IN  /\ DOMAIN l = 1..Cardinality(own)
                  /\ {l[k].id : k \in DOMAIN l} = own
                  /\ \A j, k \in DOMAIN l :
                        j < k =>
                          /\ ~FloatLess(l[j].priority_score, l[k].priority_score)
                          /\ l[j].priority_score = l[k].priority_score =>
                                todos[l[j].id].created_at <= todos[l[k].id].created_at]_vars

\* two todos of different levels and the same score, 2.8, listed in the order
\* of their creation
C14_Witness ==
    /\ pc = "done"
    /\ req.op = "get_todos"
    /\ resp.status = 200
    /\ DOMAIN resp.body.todos = 1..2
    /\ resp.body.todos[1].importance # resp.body.todos[2].importance
    /\ resp.body.todos[1].priority_score = resp.body.todos[2].priority_score
    /\ todos[resp.body.todos[1].id].created_at < todos[resp.body.todos[2].id].created_at

\* C15 as stated: ten times the score of every todo served equals
\* 6 * importance + 4 * urgency.
C15_TenTimesScore ==
    \A t \in Served :
        Round(Scale(10, t.priority_score)) = Float(6 * t.importance + 4 * t.urgency)

\* C15: for importance and urgency from 1 to 4, ten times priority_score is
\* within the floating tolerance of 6 * importance + 4 * urgency; the score
\* lies in [1.0, 4.0]; it is no column of the todo, and every todo served
\* carries the score of the levels stored at that moment.
C15_ScoreWithinTolerance ==
    /\ \A importance, urgency \in 1..4 :
          LET score == priority_score(importance, urgency)
          IN  /\ Near(Scale(10, score), Float(6 * importance + 4 * urgency))
              /\ ~FloatLess(score, Float(1))
              /\ ~FloatLess(Float(4), score)
    /\ \A id \in DOMAIN todos : "priority_score" \notin DOMAIN todos[id]
    /\ \A t \in Served :
          /\ t.importance = todos[t.id].importance
          /\ t.urgency = todos[t.id].urgency
          /\ Near(Scale(10, t.priority_score), Float(6 * t.importance + 4 * t.urgency))

\* a todo of importance 3 and urgency 1 is served with the score
\* 2.1999999999999997, ten times which is not 22
C15_Witness ==
    \E t \in Served :
        /\ t.importance = 3
        /\ t.urgency = 1
        /\ Round(Scale(10, t.priority_score)) # Float(22)

\* C16: get_level_name maps 1, 2, 3 and 4 to Low, Medium, High and Critical,
\* and get_level_icon maps each of them to an icon of its own; every level
\* outside 1..4 gets the name Medium and the icon of level 2.
C16_LevelNamesAndIcons ==
    (pc = "done" /\ req.op = "get_level") =>
        IF req.id \in 1..4
        THEN /\ resp.body.name = <<"Low", "Medium", "High", "Critical">>[req.id]
             /\ resp.body.icon = get_level_icon(req.id)
             /\ \A other \in 1..4 : other # req.id => get_level_icon(other) # resp.body.icon
        ELSE /\ resp.body.name = "Medium"
             /\ resp.body.icon = get_level_icon(2)

\* level 5 is named Medium
C16_Witness ==
    /\ pc = "done"
    /\ req.op = "get_level"
    /\ req.id = 5
    /\ resp.body.name = "Medium"

\* the user objects a response carries at its top, and the resources it carries
Profiles == IF pc = "done" /\ resp.body.kind \in {"auth", "user"} THEN {resp.body.user} ELSE {}
Resources ==
    IF pc # "done" THEN {}
    ELSE IF resp.body.kind = "items"
    THEN {resp.body.items[k] : k \in DOMAIN resp.body.items}
    ELSE IF resp.body.kind = "item" THEN {resp.body.item}
    ELSE Served
Owners == {t.owner[1] : t \in {t \in Served : t.owner # None}}

\* C17: no response carries a password or a password hash; an email appears
\* only in the user object of a register, login or /api/auth/me response and
\* is the email of the user registered, logged in or authenticated; the owner
\* nested in a todo has no email key.
C17_NoPasswordNoStrayEmail ==
    pc = "done" =>
        /\ \A o \in {resp.body} \cup Profiles \cup Resources \cup Owners :
              /\ "password" \notin DOMAIN o
              /\ "password_hash" \notin DOMAIN o
        /\ \A o \in {resp.body} \cup Resources \cup Owners : "email" \notin DOMAIN o
        /\ \A o \in Profiles :
              "email" \in DOMAIN o =>
                /\ req.op \in {"register", "login", "me"}
                /\ o.email = users[o.id].email
                /\ req.op = "me" => o.id \in Holders(req.auth)
                /\ req.op # "me" => o.email = req.json.email.s

\* a todo is served with its owner, a user who has an email, and the owner
\* object has none
C17_Witness ==
    /\ pc = "done"
    /\ req.op = "get_todos"
    /\ \E t \in Served :
          /\ t.owner # None
          /\ users[t.owner[1].id].email = EmailA
          /\ DOMAIN t.owner[1] = {"id", "username", "created_at"}

-----------------------------------------------------------------------------
(* Category references and validation *)

\* C18 as stated: every stored item's category_id is null or the id of an
\* existing category.
C18_CategoryResolves ==
    \A i \in DOMAIN items :
        items[i].category_id = None \/ items[i].category_id[1] \in DOMAIN categories

\* the errors of a payload that fails validation
ValidationErrors ==
    {"Content-Type must be application/json", "Bad Request", "Request body is required",
     "Missing required fields", "ValidationError"}

\* C19: every request answered 400 because its payload fails validation
\* (a missing field, a length, an enum, a range or the format of an email)
\* leaves users, categories and items as they were before the request.
C19_InvalidLeavesStore ==
    [][(Handled /\ resp'.status = 400 /\ resp'.error \in ValidationErrors) =>
        StoreUnchanged /\ todos' = todos]_vars

\* a PATCH of the caller's own item is answered 400 for its payload
C19_Witness ==
    /\ pc = "done"
    /\ req.op = "update_item"
    /\ req.id \in DOMAIN items
    /\ items[req.id].owner_id \in Holders(req.auth)
    /\ resp = ValidationFailed

\* C20 as stated: validate_request_json answers a request that is not JSON
\* with 400 "Content-Type must be application/json", else one whose body is
\* absent or empty with 400 "Request body is required", else one that lacks
\* required fields with one 400 that lists them all, and runs the handler
\* only when all three checks pass.
C20_ChecksInOrder ==
    [][(Handled /\ req'.op \in {"register", "login"}) =>
        LET required == IF req'.op = "register" THEN <<"email", "username", "password">>
                        ELSE <<"email", "password">>
        IN  IF ~req'.is_json
            THEN resp'.status = 400 /\ resp'.error = "Content-Type must be application/json"
            ELSE IF ~req'.parse_ok \/ DOMAIN req'.json = {}
            THEN resp'.status = 400 /\ resp'.error = "Request body is required"
            ELSE IF Missing(required, req'.json) # <<>>
            THEN /\ resp'.status = 400
                 /\ resp'.error = "Missing required fields"
                 /\ resp'.body.fields = Missing(required, req'.json)
            ELSE resp'.ran]_vars

-----------------------------------------------------------------------------
(* The order of the checks, under SpecOrder *)

BodyOps == {"create_category", "create_item", "update_item"}

\* the payload of r fails the validation of its endpoint
PayloadInvalid(r) ==
    CASE r.op = "create_category" ->
           JsonProblem(<<"name">>, r) # None \/ CategoryCreateRequest(r.json) = None
      [] r.op = "create_item" ->
           JsonProblem(<<"title">>, r) # None \/ ItemCreateRequest(r.json) = None
      [] r.op = "update_item" ->
           ~r.is_json \/ ~r.parse_ok \/ ItemUpdateRequest(r.json) = None
      [] OTHER -> FALSE

\* C21 as stated: on the endpoints that require authentication and take a
\* body the validator runs before the guard, so that a payload that fails
\* validation is answered 400 whether or not the request is authenticated.
C21_ValidatorBeforeGuard ==
    [][(Handled /\ req'.op \in BodyOps /\ PayloadInvalid(req')) => resp'.status = 400]_vars

\* C21: on POST /api/categories, POST /api/items and PATCH /api/items/<id>
\* the guard runs before the validator: a request without a valid token is
\* answered 401 whatever its payload; an authenticated POST with a failing
\* payload is answered 400; an authenticated PATCH with a failing payload is
\* answered 404 or 403 when the item is missing or another user's, and 400
\* only on the caller's own item; none of these changes the store.
C21_GuardBeforeValidator ==
    [][(Handled /\ req'.op \in BodyOps) =>
        /\ Holders(req'.auth) = {} => resp' = Unauthenticated /\ StoreUnchanged
        /\ (Holders(req'.auth) # {} /\ PayloadInvalid(req')) =>
              /\ StoreUnchanged
              /\ req'.op # "update_item" => resp'.status = 400
              /\ req'.op = "update_item" =>
                    resp'.status = IF req'.id \notin DOMAIN items THEN 404
                                   ELSE IF items[req'.id].owner_id \notin Holders(req'.auth)
                                   THEN 403 ELSE 400]_vars

\* a POST /api/items without a token and without a title is answered 401
C21_Witness ==
    /\ pc = "done"
    /\ req.op = "create_item"
    /\ req.auth = NoHeader
    /\ "title" \notin DOMAIN req.json
    /\ resp.status = 401

-----------------------------------------------------------------------------
(* Ownership, under SpecCascade *)

\* the users deleted by the step at hand
Gone == DOMAIN users \ DOMAIN users'

\* C22: every stored item and todo is owned by an existing user; the step
\* that deletes a user removes every item and todo of that user and leaves
\* those of every other user as they were.
C22_OwnersExist ==
    [][/\ \A i \in DOMAIN items' : items'[i].owner_id \in DOMAIN users'
       /\ \A i \in DOMAIN todos' : todos'[i].owner_id \in DOMAIN users'
       /\ Gone # {} =>
             /\ \A i \in DOMAIN items :
                   IF items[i].owner_id \in Gone THEN i \notin DOMAIN items'
                   ELSE i \in DOMAIN items' /\ items'[i] = items[i]
             /\ \A i \in DOMAIN todos :
                   IF todos[i].owner_id \in Gone THEN i \notin DOMAIN todos'
                   ELSE i \in DOMAIN todos' /\ todos'[i] = todos[i]
             /\ DOMAIN items' \subseteq DOMAIN items
             /\ DOMAIN todos' \subseteq DOMAIN todos]_vars

\* one user is left, with a todo, after the other was deleted with the
\* todo that had key 1
C22_Witness ==
    /\ Cardinality(DOMAIN users) = 1
    /\ DOMAIN todos = {2}
    /\ todos[2].owner_id \in DOMAIN users

\* C23: an item created through POST /api/items is owned by the user of the
\* request's token, whatever the payload contains, and no later request
\* changes the owner_id of an item.
C23_OwnerFromToken ==
    [][/\ (Handled /\ req'.op = "create_item" /\ resp'.status = 201) =>
             /\ DOMAIN items' = DOMAIN items \cup {resp'.body.item.id}
             /\ resp'.body.item.id \notin DOMAIN items
             /\ Holders(req'.auth) = {items'[resp'.body.item.id].owner_id}
       /\ \A i \in DOMAIN items \cap DOMAIN items' : items'[i].owner_id = items[i].owner_id]_vars

\* a user creates an item with a payload that names the other user as its
\* owner, and owns it
C23_Witness ==
    /\ pc = "done"
    /\ req.op = "create_item"
    /\ resp.status = 201
    /\ "owner_id" \in DOMAIN req.json
    /\ req.json.owner_id.n \in DOMAIN users
    /\ req.json.owner_id.n # items[resp.body.item.id].owner_id

-----------------------------------------------------------------------------
(* Categories, under SpecAuth *)

\* C24: GET /api/categories needs no token and returns every stored category
\* once, in ascending order of name; POST /api/categories without a valid
\* token is answered 401 and creates no category.
C24_CategoriesListedByName ==
    [][/\ (Handled /\ req'.op = "get_categories") =>
             LET l == resp'.body.categories
             IN  /\ resp'.status = 200
                 /\ StoreUnchanged
                 /\ DOMAIN l = 1..Cardinality(DOMAIN categories)
                 /\ {l[k].id : k \in DOMAIN l} = DOMAIN categories
                 /\ \A k \in DOMAIN l : l[k].name = categories[l[k].id].name
                 /\ \A j, k \in DOMAIN l : j < k => StrLess(l[j].name, l[k].name)
       /\ (Handled /\ req'.op = "create_category" /\ Holders(req'.auth) = {}) =>
             /\ resp'.status = 401
             /\ categories' = categories]_vars

\* with no token, the category created second is listed first
C24_Witness ==
    /\ pc = "done"
    /\ req.op = "get_categories"
    /\ req.auth = NoHeader
    /\ DOMAIN resp.body.categories = 1..2
    /\ resp.body.categories[1].id = 2

\* C25: a DELETE answered 200 removes the item and leaves every other row as
\* it was; from then on every GET, PATCH and DELETE of that id by an
\* authenticated user is answered 404 and changes nothing, and the id stays
\* absent until a POST /api/items creates an item under it.
C25_DeletedStaysGone ==
    [][/\ (Handled /\ req'.op = "delete_item" /\ resp'.status = 200) =>
             /\ req'.id \in DOMAIN items
             /\ DOMAIN items' = DOMAIN items \ {req'.id}
             /\ \A j \in DOMAIN items' : items'[j] = items[j]
             /\ users' = users
             /\ categories' = categories
       /\ (Handled /\ req'.op \in ItemOps /\ Holders(req'.auth) # {}
             /\ req'.id \notin DOMAIN items) =>
             /\ resp'.status = 404
             /\ StoreUnchanged
       /\ \A i \in DOMAIN items' \ DOMAIN items :
             Handled /\ req'.op = "create_item" /\ resp'.status = 201]_vars

\* the item of key 1 was deleted, that of key 2 is still there, and a request
\* for key 1 is answered 404
C25_Witness ==
    /\ pc = "done"
    /\ req.op \in ItemOps
    /\ req.id = 1
    /\ Holders(req.auth) # {}
    /\ DOMAIN items = {2}
    /\ resp.status = 404

-----------------------------------------------------------------------------
(* Bounds of the stored fields *)

\* the title and the status that payload d asks for break a bound
BreaksBound(d) ==
    \/ Given(d, "title") /\ (d.title.t # "str" \/ Len(d.title.s) \notin 1..200)
    \/ Given(d, "status")
         /\ (d.status.t # "str"
               \/ d.status.s \notin {StatusActive, StatusInactive, StatusArchived})

\* C26: every item stored has a title of 1 to 200 characters and a status
\* among active, inactive and archived; an authenticated POST /api/items,
\* and a PATCH by the owner of the item, whose title or status breaks a bound
\* is answered 400 and changes nothing.
C26_TitleAndStatusBounds ==
    [][/\ \A i \in DOMAIN items' :
             /\ Len(items'[i].title) \in 1..200
             /\ items'[i].status \in {StatusActive, StatusInactive, StatusArchived}
       /\ (/\ Handled
           /\ BreaksBound(req'.json)
           /\ \/ req'.op = "create_item" /\ Holders(req'.auth) # {}
              \/ /\ req'.op = "update_item"
                 /\ req'.id \in DOMAIN items
                 /\ items[req'.id].owner_id \in Holders(req'.auth))
             => resp'.status = 400 /\ StoreUnchanged]_vars

\* the owner's PATCH with a status outside the three is answered 400
C26_Witness ==
    /\ pc = "done"
    /\ req.op = "update_item"
    /\ req.id \in DOMAIN items
    /\ items[req.id].owner_id \in Holders(req.auth)
    /\ Given(req.json, "status")
    /\ req.json.status.s = StatusInvalid
    /\ resp.status = 400

\* the payload carries an importance or an urgency outside 1..4
OutOfRange(d) ==
    \/ Given(d, "importance") /\ d.importance.n \notin 1..4
    \/ Given(d, "urgency") /\ d.urgency.n \notin 1..4

\* C27: every stored todo has importance and urgency in 1..4; a create, and
\* an update by the owner, that carries an importance or urgency outside
\* 1..4 is answered 400 and changes nothing; a todo created without them
\* gets importance 2, urgency 2 and status pending.
C27_LevelsInRange ==
    [][/\ \A i \in DOMAIN todos' : todos'[i].importance \in 1..4 /\ todos'[i].urgency \in 1..4
       /\ (/\ Handled
           /\ OutOfRange(req'.json)
           /\ \/ req'.op = "create_todo" /\ Holders(req'.auth) # {}
              \/ /\ req'.op = "update_todo"
                 /\ req'.id \in DOMAIN todos
                 /\ todos[req'.id].owner_id \in Holders(req'.auth))
             => resp'.status = 400 /\ todos' = todos
       /\ (Handled /\ req'.op = "create_todo" /\ resp'.status = 201) =>
             LET new == todos'[resp'.body.todo.id]
             IN  /\ new.importance =
                       IF Given(req'.json, "importance") THEN req'.json.importance.n ELSE 2
                 /\ new.urgency = IF Given(req'.json, "urgency") THEN req'.json.urgency.n ELSE 2
                 /\ "status" \notin DOMAIN req'.json => new.status = StatusPending]_vars

\* the owner's PATCH of a todo with importance 5 is answered 400
C27_Witness ==
    /\ pc = "done"
    /\ req.op = "update_todo"
    /\ req.id \in DOMAIN todos
    /\ todos[req.id].owner_id \in Holders(req.auth)
    /\ Given(req.json, "importance")
    /\ req.json.importance.n = 5
    /\ resp.status = 400

CategoryMissing(d) == Given(d, "category_id") /\ d.category_id.n \notin DOMAIN categories

\* C29: PATCH /api/items/<id> checks authentication, then existence, then
\* ownership, then the payload, then the category: it answers 401 without a
\* valid token, else 404 "Item not found" for a missing id, else 403 for
\* another user's item, else 400 for an invalid payload (also one that names
\* a missing category), else 404 "Category not found"; it answers 400 only
\* to the owner of an existing item.
C29_PatchChecksInOrder ==
    [][(Handled /\ req'.op = "update_item") =>
        /\ resp' = IF Holders(req'.auth) = {} THEN Unauthenticated
                   ELSE IF req'.id \notin DOMAIN items THEN ItemNotFound
                   ELSE IF items[req'.id].owner_id \notin Holders(req'.auth) THEN Forbidden
                   ELSE IF ~req'.is_json \/ ~req'.parse_ok THEN resp'
                   ELSE IF ItemUpdateRequest(req'.json) = None THEN ValidationFailed
                   ELSE IF CategoryMissing(req'.json) THEN CategoryNotFound
                   ELSE resp'
        /\ resp'.status = 400 =>
              /\ req'.id \in DOMAIN items
              /\ items[req'.id].owner_id \in Holders(req'.auth)]_vars

\* an invalid payload on another user's item is answered 403
C29_Witness ==
    /\ pc = "done"
    /\ req.op = "update_item"
    /\ PayloadInvalid(req)
    /\ req.id \in DOMAIN items
    /\ Holders(req.auth) # {}
    /\ items[req.id].owner_id \notin Holders(req.auth)
    /\ resp = Forbidden

ReadOps == {"login", "me", "get_categories", "get_items", "get_item", "health"}
WriteOps == {"register", "create_category", "create_item", "update_item", "delete_item"}

\* the rows of a table that a step inserted, deleted or changed
RowsChanged(old, new) ==
    {i \in DOMAIN old \cup DOMAIN new :
        i \notin DOMAIN old \/ i \notin DOMAIN new \/ old[i] # new[i]}

\* C30: login, me, GET /api/categories, GET /api/items, GET /api/items/<id>
\* and GET /health leave users, categories and items unchanged whatever they
\* answer; a request that changes the store is a register, create-category,
\* create-item, update-item or delete-item, and it changes one row of one
\* table.
C30_OnlyWritersChangeOneRow ==
    [][Handled =>
        /\ req'.op \in ReadOps => StoreUnchanged
        /\ ~StoreUnchanged =>
              /\ req'.op \in WriteOps
              /\ Cardinality(RowsChanged(users, users'))
                    + Cardinality(RowsChanged(categories, categories'))
                    + Cardinality(RowsChanged(items, items')) = 1]_vars

\* an owner with two items has deleted one of them
C30_Witness ==
    /\ pc = "done"
    /\ req.op = "delete_item"
    /\ resp.status = 200
    /\ \E i \in DOMAIN items : items[i].owner_id \in Holders(req.auth)

====
